---- MODULE Spec2Model ----
(***************************************************************************)
(* A model of the Word document tool set of server.py.  Every tool is one  *)
(* load-mutate-save cycle over a document file: the state is the file      *)
(* system (path -> document), and every tool is one action that computes   *)
(* the file system it leaves and the value it returns.                     *)
(*                                                                         *)
(* A document is the sequence of its body blocks (paragraphs and tables);  *)
(* a paragraph is a sequence of runs; a run holds text, its formatting and *)
(* the drawings (embedded pictures) nested in it; a table is a sequence of *)
(* rows of cells, each cell a sequence of paragraphs.                      *)
(*                                                                         *)
(* Units: font sizes given to a tool are in quarter points (48 = 12 pt),   *)
(* a run stores its size in half points as the package does (w:sz), and    *)
(* picture extents are in EMU.                                             *)
(***************************************************************************)
EXTENDS Integers, Sequences, FiniteSets, TLC

VARIABLES files, last, nops, calls

vars == <<files, last, nops, calls>>

\* How many tool calls one behaviour makes.
MaxOps == 1

---------------------------------------------------------------------------
\* Optional arguments (Python's None).

None == [some |-> FALSE, val |-> 0]

Some(v) == [some |-> TRUE, val |-> v]

\* A missing run property (run.bold, run.font.name, run.font.size is None).
Unset == "None"

NoSize == 0 - 1

Min(a, b) == IF a < b THEN a ELSE b

Max(a, b) == IF a > b THEN a ELSE b

RECURSIVE Flatten(_)
\* The concatenation of a sequence of sequences.
Flatten(ss) == IF ss = <<>> THEN <<>> ELSE Head(ss) \o Flatten(Tail(ss))

\* s with x placed so that it becomes element number k+1 (k elements before it).
InsertAt(s, k, x) == SubSeq(s, 1, k) \o <<x>> \o SubSeq(s, k + 1, Len(s))

RemoveAt(s, k) == SubSeq(s, 1, k - 1) \o SubSeq(s, k + 1, Len(s))

---------------------------------------------------------------------------
\* Text.  A text is a sequence of characters; "CR", "LF" and "TAB" stand for
\* the control characters and "NUL" for a character XML cannot hold.

IsWhitespace(ch) == ch \in {" ", "CR", "LF", "TAB"}

\* run.text = t: the library stores "\t" as a tab element and both "\n" and
\* "\r" as a line break element, and run.text reads a line break as "\n".
\* The stored form is kept as the text run.text reads back.
StoredChar(ch) == IF ch = "CR" THEN "LF" ELSE ch

StoredText(t) == [k \in 1..Len(t) |-> StoredChar(t[k])]

\* lxml refuses a text with a NUL or control character (ValueError).
XmlCompatible(t) == \A k \in 1..Len(t) : t[k] # "NUL"

RECURSIVE LStrip(_)
LStrip(t) == IF t # <<>> /\ IsWhitespace(Head(t)) THEN LStrip(Tail(t)) ELSE t

RECURSIVE RStrip(_)
RStrip(t) ==
    IF t # <<>> /\ IsWhitespace(t[Len(t)]) THEN RStrip(SubSeq(t, 1, Len(t) - 1)) ELSE t

\* str.strip()
Strip(t) == RStrip(LStrip(t))

---------------------------------------------------------------------------
\* Runs, paragraphs, tables, documents.

\* paragraph.add_run(text): a run with no formatting of its own.
NewRun(t) ==
    [text |-> StoredText(t), bold |-> Unset, italic |-> Unset, font |-> Unset,
     eastAsia |-> Unset, sz |-> NoSize, drawings |-> <<>>]

\* OxmlElement('w:p') / doc.add_paragraph(): no runs, default style, no
\* paragraph properties.
NewParagraph ==
    [runs |-> <<>>, style |-> "Normal", align |-> Unset, indent |-> NoSize,
     spacing |-> NoSize]

\* paragraph.text: the run texts joined.
ParaText(p) == Flatten([k \in 1..Len(p.runs) |-> p.runs[k].text])

\* A cell as table.add_row / doc.add_table make it: one empty paragraph.
NewCell == <<NewParagraph>>

NoTable == [rows |-> <<>>, ncols |-> 0, style |-> Unset, gridPos |-> 0]

ParaBlock(p) == [kind |-> "p", para |-> p, tbl |-> NoTable]

TableBlock(t) == [kind |-> "t", para |-> NewParagraph, tbl |-> t]

NoFile == [exists |-> FALSE, body |-> <<>>, styles |-> {}]

\* The table styles of the library's default template that the model names.
TemplateStyles == {"Table Grid", "Light List"}

\* Document(): the default template has an empty body.
BlankDocument == [exists |-> TRUE, body |-> <<>>, styles |-> TemplateStyles]

\* The positions in the body of the blocks of one kind, in document order.
RECURSIVE KindPositions(_, _, _)
KindPositions(body, kind, k) ==
    IF k > Len(body) THEN <<>>
    ELSE (IF body[k].kind = kind THEN <<k>> ELSE <<>>) \o KindPositions(body, kind, k + 1)

\* doc.paragraphs: the paragraphs that are children of the body, in order.
ParaPositions(doc) == KindPositions(doc.body, "p", 1)

Paragraphs(doc) ==
    LET at == ParaPositions(doc) IN [k \in 1..Len(at) |-> doc.body[at[k]].para]

\* doc.tables: the tables that are children of the body, in order.
TablePositions(doc) == KindPositions(doc.body, "t", 1)

Tables(doc) ==
    LET at == TablePositions(doc) IN [k \in 1..Len(at) |-> doc.body[at[k]].tbl]

\* cell.text: the texts of the cell's paragraphs joined by "\n".
RECURSIVE JoinParas(_)
JoinParas(ps) ==
    IF ps = <<>> THEN <<>>
    ELSE IF Len(ps) = 1 THEN ParaText(ps[1])
    ELSE ParaText(ps[1]) \o <<"LF">> \o JoinParas(Tail(ps))

CellText(cell) == JoinParas(cell)

---------------------------------------------------------------------------
\* The file system.  A path's parent directory either exists and can be
\* written, or does not (doc.save then raises).  An image path names a
\* picture file, a file that is no picture, or nothing.

DocPaths == {"a.docx", "b.docx"}

BadDirPaths == {"nodir/c.docx"}

Paths == DocPaths \cup BadDirPaths

\* os.path.exists(abs_path)
Exists(fs, path) == fs[path].exists

ImagePaths == {"pic.png", "notes.txt", "missing.png"}

ImageAlwaysExists(ip) == TRUE

\* os.path.exists(abs_image_path)
ImageExists(ip) == ip # "missing.png"

\* The picture file: its bytes, its content type and its native size (EMU).
ImageFile(ip) ==
    [valid |-> ip = "pic.png", blob |-> ip, ctype |-> "image/png", cx |-> 952500,
     cy |-> 476250]

---------------------------------------------------------------------------
\* What a tool returns.  kind is the class of the outcome ("ok", "notfound",
\* "invalid", "internal"); form is "json" for a JSON object, "text" for a
\* plain string and "images" for a list of images; success and error tell
\* whether the JSON object has a true "success" field and an "error" field;
\* raised tells whether the call ended by an exception instead of a value.

Result(kind, form, success, error, data) ==
    [kind |-> kind, form |-> form, success |-> success, error |-> error,
     raised |-> FALSE, data |-> data]

\* json.dumps({"success": True, "message": ...})
JsonSuccess == Result("ok", "json", TRUE, FALSE, <<>>)

\* json.dumps({"error": ...})
JsonError(kind) == Result(kind, "json", FALSE, TRUE, <<>>)

\* json.dumps(<the data read>)
JsonData(data) == Result("ok", "json", FALSE, FALSE, data)

\* A plain string.
TextResult(kind) == Result(kind, "text", FALSE, FALSE, <<>>)

ExceptJsonPropagates == [JsonError("internal") EXCEPT !.raised = TRUE]

\* except Exception as e: return json.dumps({"error": str(e)})
ExceptJson == JsonError("internal")

\* except Exception as e: return f"Error ...: {str(e)}"
ExceptText == TextResult("internal")

\* What a tool has decided when it reaches doc.save (or returns before it):
\* save tells whether it saves doc to path and then returns res, or returns
\* res at once.
Return(res) == [save |-> FALSE, path |-> "", doc |-> NoFile, res |-> res]

SaveThenReturn(path, doc, res) == [save |-> TRUE, path |-> path, doc |-> doc, res |-> res]

\* doc.save(abs_path): the file at path becomes the package of doc.
WriteFile(fs, path, doc) == [fs EXCEPT ![path] = doc]

\* The rest of a tool from doc.save on.
Finish(fs, d) ==
    IF d.save THEN [files |-> WriteFile(fs, d.path, d.doc), res |-> d.res]
    ELSE [files |-> fs, res |-> d.res]

---------------------------------------------------------------------------
\* create_new_document

\* create_new_document that leaves a file it finds as it is.
CreateKeepsExisting(fs, path) ==
    IF path \in BadDirPaths THEN [files |-> fs, res |-> ExceptText]
    ELSE IF Exists(fs, path) THEN [files |-> fs, res |-> TextResult("ok")]
    ELSE [files |-> WriteFile(fs, path, BlankDocument), res |-> TextResult("ok")]

\* create_new_document that reports success whatever doc.save did.
CreateIgnoresSaveError(fs, path) ==
    IF path \in BadDirPaths THEN [files |-> fs, res |-> TextResult("ok")]
    ELSE [files |-> WriteFile(fs, path, BlankDocument), res |-> TextResult("ok")]

CreateNewDocument(fs, path) ==
    IF path \in BadDirPaths
    THEN [files |-> fs, res |-> ExceptText]
    ELSE [files |-> WriteFile(fs, path, BlankDocument), res |-> TextResult("ok")]

---------------------------------------------------------------------------
\* get_document_info

PreviewChars == 50

Preview(t) ==
    LET s == Strip(t)
    IN  IF Len(s) > PreviewChars THEN SubSeq(s, 1, PreviewChars) \o <<".", ".", ".">> ELSE s

RECURSIVE Summary(_, _)
\* The summary entries of paragraphs k.. of ps (index is 0-based).
Summary(ps, k) ==
    IF k > Len(ps) THEN <<>>
    ELSE (IF Preview(ParaText(ps[k])) # <<>>
          THEN <<[index |-> k - 1, preview |-> Preview(ParaText(ps[k])), style |-> ps[k].style]>>
          ELSE <<>>) \o Summary(ps, k + 1)

GetDocumentInfo(fs, path) ==
    IF ~Exists(fs, path) THEN JsonError("notfound")
    ELSE LET doc == fs[path]
             summary == Summary(Paragraphs(doc), 1)
         IN  JsonData([total_paragraphs |-> Len(Paragraphs(doc)),
                       non_empty_paragraphs |-> Len(summary),
                       total_tables |-> Len(Tables(doc)),
                       paragraphs_summary |-> summary])

---------------------------------------------------------------------------
\* read_document_structure

\* str(para.alignment) if para.alignment else "LEFT": LEFT is the enum's 0.
AlignmentShown(a) == IF a \in {Unset, "LEFT"} THEN "LEFT" ELSE a

\* run.font.size.pt if run.font.size else None, in quarter points.
FontSizeShown(sz) == IF sz <= 0 THEN NoSize ELSE 2 * sz

RunInfo(r) ==
    [text |-> r.text, bold |-> r.bold, italic |-> r.italic, font_name |-> r.font,
     font_size |-> FontSizeShown(r.sz), east_asia_font |-> r.eastAsia]

StyleInfo(p, i) ==
    [index |-> i, text |-> ParaText(p), style_name |-> p.style,
     alignment |-> AlignmentShown(p.align),
     runs |-> [k \in 1..Len(p.runs) |-> RunInfo(p.runs[k])]]

RECURSIVE ReadLoopKeepsEmpty(_, _, _, _, _, _)
\* The loop without the test that skips the paragraphs without text.
ReadLoopKeepsEmpty(ps, i, start_index, limit, include_empty, content) ==
    IF i >= Len(ps) \/ Len(content) >= limit THEN content
    ELSE IF i < start_index
         THEN ReadLoopKeepsEmpty(ps, i + 1, start_index, limit, include_empty, content)
    ELSE ReadLoopKeepsEmpty(ps, i + 1, start_index, limit, include_empty,
                            Append(content, StyleInfo(ps[i + 1], i)))

RECURSIVE ReadLoop(_, _, _, _, _, _)
\* The loop over enumerate(doc.paragraphs) from 0-based index i on, with the
\* entries collected so far.
ReadLoop(ps, i, start_index, limit, include_empty, content) ==
    IF i >= Len(ps) THEN content
    ELSE IF i < start_index
         THEN ReadLoop(ps, i + 1, start_index, limit, include_empty, content)
    ELSE IF ~include_empty /\ Strip(ParaText(ps[i + 1])) = <<>>
         THEN ReadLoop(ps, i + 1, start_index, limit, include_empty, content)
    ELSE IF Len(content) >= limit THEN content
    ELSE ReadLoop(ps, i + 1, start_index, limit, include_empty,
                  Append(content, StyleInfo(ps[i + 1], i)))

ReadStructureData(doc, start_index, limit, include_empty) ==
    LET ps == Paragraphs(doc)
        content == ReadLoop(ps, 0, start_index, limit, include_empty, <<>>)
    IN  [total_paragraphs |-> Len(ps), returned_count |-> Len(content),
         start_index |-> start_index,
         has_more |-> (start_index + Len(content)) < Len(ps),
         paragraphs |-> content]

ReadDocumentStructure(fs, path, start_index, limit, include_empty) ==
    IF ~Exists(fs, path) THEN JsonError("notfound")
    ELSE JsonData(ReadStructureData(fs[path], start_index, limit, include_empty))

---------------------------------------------------------------------------
\* read_tables

TableContent(t, idx) ==
    [table_index |-> idx, rows |-> Len(t.rows), cols |-> t.ncols,
     data |-> [r \in 1..Len(t.rows) |->
                 [c \in 1..Len(t.rows[r]) |-> CellText(t.rows[r][c])]]]

RECURSIVE TablesData(_, _, _)
TablesData(ts, k, table_index) ==
    IF k > Len(ts) THEN <<>>
    ELSE (IF table_index.some /\ k - 1 # table_index.val THEN <<>>
          ELSE <<TableContent(ts[k], k - 1)>>) \o TablesData(ts, k + 1, table_index)

ReadTables(fs, path, table_index) ==
    IF ~Exists(fs, path) THEN JsonError("notfound")
    ELSE JsonData([total_tables |-> Len(Tables(fs[path])),
                   tables |-> TablesData(Tables(fs[path]), 1, table_index)])

---------------------------------------------------------------------------
\* _apply_paragraph_format and the paragraph tools.  The paragraph arguments
\* are one record pa: text, font_name, font_size (quarter points), is_bold,
\* alignment, indent_first_line (characters), line_spacing (quarter points,
\* 0 for None).

\* str.upper() on the alignment names used.
Upper(s) == IF s = "center" THEN "CENTER" ELSE s

\* align_map.get(alignment.upper(), WD_ALIGN_PARAGRAPH.LEFT)
ParagraphAlignment(alignment) ==
    IF Upper(alignment) \in {"LEFT", "CENTER", "RIGHT", "JUSTIFY"}
    THEN Upper(alignment) ELSE "LEFT"

BoolName(b) == IF b THEN "True" ELSE "False"

\* run.font.size = Pt(font_size): w:sz holds half points, int(pt * 2).
HalfPoints(font_size) == font_size \div 2

\* The library refuses a negative size (ValueError).
SizeAccepted(font_size) == font_size >= 0

\* run.bold, run.font.size, run.font.name and the w:eastAsia attribute.
FormatRun(r, pa) ==
    [r EXCEPT !.bold = BoolName(pa.is_bold), !.sz = HalfPoints(pa.font_size),
              !.font = pa.font_name, !.eastAsia = pa.font_name]

\* _apply_paragraph_format(paragraph, run, ...) where run is the last run of
\* paragraph.
ApplyParagraphFormat(p, pa) ==
    [p EXCEPT !.align = ParagraphAlignment(pa.alignment),
              !.indent = IF pa.indent_first_line > 0
                         THEN pa.font_size * pa.indent_first_line ELSE @,
              !.spacing = IF pa.line_spacing # 0 THEN pa.line_spacing ELSE @,
              !.runs = [k \in 1..Len(p.runs) |->
                          IF k = Len(p.runs) THEN FormatRun(p.runs[k], pa) ELSE p.runs[k]]]

\* Whether add_run(text) followed by _apply_paragraph_format raises.
ParagraphRaises(pa) == ~XmlCompatible(pa.text) \/ ~SizeAccepted(pa.font_size)

\* paragraph.add_run(text) followed by _apply_paragraph_format.
WithFormattedRun(p, pa) ==
    ApplyParagraphFormat([p EXCEPT !.runs = Append(@, NewRun(pa.text))], pa)

\* paragraph_index < 0 or paragraph_index >= len(doc.paragraphs)
InvalidParagraphIndex(doc, i) == i < 0 \/ i >= Len(Paragraphs(doc))

\* The position in the body of doc.paragraphs[i].
BodyPosition(doc, i) == ParaPositions(doc)[i + 1]

AddFormattedParagraph(fs, path, pa) ==
    IF ~Exists(fs, path) THEN Return(JsonError("notfound"))
    ELSE IF ParagraphRaises(pa) THEN Return(ExceptJson)
    ELSE SaveThenReturn(path,
             [fs[path] EXCEPT !.body = Append(@, ParaBlock(WithFormattedRun(NewParagraph, pa)))],
             JsonSuccess)

\* A paragraph left with the runs it had.
NotCleared(p) == p

\* para.clear(): the runs go, the paragraph properties stay.
Cleared(p) == [p EXCEPT !.runs = <<>>]

ReplaceParagraph(fs, path, paragraph_index, pa) ==
    IF ~Exists(fs, path) THEN Return(JsonError("notfound"))
    ELSE IF InvalidParagraphIndex(fs[path], paragraph_index) THEN Return(JsonError("invalid"))
    ELSE IF ParagraphRaises(pa) THEN Return(ExceptJson)
    ELSE LET pos == BodyPosition(fs[path], paragraph_index)
         IN  SaveThenReturn(path,
                 [fs[path] EXCEPT !.body[pos].para = WithFormattedRun(Cleared(@), pa)],
                 JsonSuccess)

InsertBefore(body, pos, block) == InsertAt(body, pos - 1, block)

\* target_para._element.addnext(new): new becomes the body child right
\* after the one at pos.
AddNext(body, pos, block) == InsertAt(body, pos, block)

InsertParagraphAfter(fs, path, after_index, pa) ==
    IF ~Exists(fs, path) THEN Return(JsonError("notfound"))
    ELSE IF InvalidParagraphIndex(fs[path], after_index) THEN Return(JsonError("invalid"))
    ELSE IF ParagraphRaises(pa) THEN Return(ExceptJson)
    ELSE LET pos == BodyPosition(fs[path], after_index)
         IN  SaveThenReturn(path,
                 [fs[path] EXCEPT !.body = AddNext(@, pos,
                                               ParaBlock(WithFormattedRun(NewParagraph, pa)))],
                 JsonSuccess)

---------------------------------------------------------------------------
\* search_and_replace.  The arguments are one record sa: search_text,
\* replace_text, match_case.  "BS" stands for the backslash.

\* str.lower() on the letters used (re.IGNORECASE).
Fold(ch) == IF ch = "A" THEN "a" ELSE IF ch = "B" THEN "b" ELSE ch

SameChar(x, y, match_case) == IF match_case THEN x = y ELSE Fold(x) = Fold(y)

\* Whether s occurs in t at its start.
StartsWith(t, s, match_case) ==
    /\ Len(s) <= Len(t)
    /\ \A k \in 1..Len(s) : SameChar(t[k], s[k], match_case)

\* search_text in run.text / re.search(re.escape(search_text), run.text, re.IGNORECASE)
Contains(t, s, match_case) ==
    \E k \in 0..(Len(t) - Len(s)) : StartsWith(SubSeq(t, k + 1, Len(t)), s, match_case)

RECURSIVE ReplaceAll(_, _, _, _)
\* str.replace / re.sub: every occurrence, left to right, none overlapping;
\* an empty s matches before every character and at the end.
ReplaceAll(t, s, rep, match_case) ==
    IF t = <<>> THEN (IF s = <<>> THEN rep ELSE <<>>)
    ELSE IF s = <<>> THEN rep \o <<Head(t)>> \o ReplaceAll(Tail(t), s, rep, match_case)
    ELSE IF StartsWith(t, s, match_case)
         THEN rep \o ReplaceAll(SubSeq(t, Len(s) + 1, Len(t)), s, rep, match_case)
    ELSE <<Head(t)>> \o ReplaceAll(Tail(t), s, rep, match_case)

IsLetterOrDigit(ch) == ch \in {"a", "b", "A", "B", "x", "y", "1"}

RECURSIVE TemplateRaises(_)
\* re.sub reads replace_text as a template: a backslash followed by a digit
\* is a group reference (the pattern has no group), followed by a letter it
\* is an escape (unknown, or a control character), at the end it is an error.
TemplateRaises(rep) ==
    IF rep = <<>> THEN FALSE
    ELSE IF Head(rep) # "BS" THEN TemplateRaises(Tail(rep))
    ELSE IF Len(rep) = 1 THEN TRUE
    ELSE IF IsLetterOrDigit(rep[2]) THEN TRUE
    ELSE TemplateRaises(SubSeq(rep, 3, Len(rep)))

RECURSIVE TemplateText(_)
\* The text a template without error stands for: "\\" is one backslash.
TemplateText(rep) ==
    IF rep = <<>> THEN <<>>
    ELSE IF Head(rep) # "BS" \/ Len(rep) = 1 THEN <<Head(rep)>> \o TemplateText(Tail(rep))
    ELSE IF rep[2] = "BS" THEN <<"BS">> \o TemplateText(SubSeq(rep, 3, Len(rep)))
    ELSE <<"BS", rep[2]>> \o TemplateText(SubSeq(rep, 3, Len(rep)))

RunMatches(r, sa) == Contains(r.text, sa.search_text, sa.match_case)

\* The text the run is given.
ReplacedText(r, sa) ==
    ReplaceAll(r.text, sa.search_text,
               IF sa.match_case THEN sa.replace_text ELSE TemplateText(sa.replace_text),
               sa.match_case)

RunReplaceRaises(r, sa) ==
    /\ RunMatches(r, sa)
    /\ \/ ~sa.match_case /\ TemplateRaises(sa.replace_text)
       \/ ~XmlCompatible(ReplacedText(r, sa))

\* run.text = ...: the run's content other than its properties is removed
\* and the text added, so a drawing in the run goes too.
RunReplaced(r, sa) ==
    IF RunMatches(r, sa)
    THEN [r EXCEPT !.text = StoredText(ReplacedText(r, sa)), !.drawings = <<>>]
    ELSE r

\* A replacement over the text of the whole paragraph, the result put in its
\* first run and the other runs emptied.
ParaReplacedJoined(p, sa) ==
    IF Contains(ParaText(p), sa.search_text, sa.match_case)
    THEN [p EXCEPT !.runs =
             [k \in 1..Len(p.runs) |->
                 [p.runs[k] EXCEPT !.text =
                     IF k = 1
                     THEN ReplaceAll(ParaText(p), sa.search_text, sa.replace_text, sa.match_case)
                     ELSE <<>>]]]
    ELSE p

ParaReplaced(p, sa) == [p EXCEPT !.runs = [k \in 1..Len(p.runs) |-> RunReplaced(p.runs[k], sa)]]

CellReplaced(cell, sa) == [k \in 1..Len(cell) |-> ParaReplaced(cell[k], sa)]

TableReplaced(t, sa) ==
    [t EXCEPT !.rows = [r \in 1..Len(t.rows) |->
                          [c \in 1..Len(t.rows[r]) |-> CellReplaced(t.rows[r][c], sa)]]]

BlockReplaced(b, sa) ==
    IF b.kind = "p" THEN ParaBlock(ParaReplaced(b.para, sa))
    ELSE TableBlock(TableReplaced(b.tbl, sa))

\* Every run the two loops visit: those of the body paragraphs, then those
\* of the paragraphs of the cells of the tables.
CellRuns(cell) == Flatten([k \in 1..Len(cell) |-> cell[k].runs])

RowRuns(row) == Flatten([c \in 1..Len(row) |-> CellRuns(row[c])])

TableRuns(t) == Flatten([r \in 1..Len(t.rows) |-> RowRuns(t.rows[r])])

VisitedRuns(doc) ==
    LET ps == Paragraphs(doc)
        ts == Tables(doc)
    IN  Flatten([k \in 1..Len(ps) |-> ps[k].runs]) \o Flatten([k \in 1..Len(ts) |-> TableRuns(ts[k])])

\* count: one for every run whose text was replaced.
ReplaceCount(doc, sa) ==
    LET runs == VisitedRuns(doc) IN Cardinality({k \in 1..Len(runs) : RunMatches(runs[k], sa)})

SearchAndReplace(fs, path, sa) ==
    IF ~Exists(fs, path) THEN Return(JsonError("notfound"))
    ELSE IF LET runs == VisitedRuns(fs[path])
            IN  \E k \in 1..Len(runs) : RunReplaceRaises(runs[k], sa)
         THEN Return(ExceptJson)
    ELSE SaveThenReturn(path,
             [fs[path] EXCEPT !.body = [k \in 1..Len(fs[path].body) |->
                                          BlockReplaced(fs[path].body[k], sa)]],
             Result("ok", "json", TRUE, FALSE,
                    [message_count |-> ReplaceCount(fs[path], sa)]))

---------------------------------------------------------------------------
\* Tables: create_table_with_data.  The arguments are one record ta: rows,
\* cols, data (a sequence of rows of texts), header_bold, style.

\* doc.add_table(rows, cols): rows x cols cells of one empty paragraph each.
NewTable(rows, cols) ==
    [rows |-> [r \in 1..rows |-> [c \in 1..cols |-> NewCell]], ncols |-> cols,
     style |-> Unset, gridPos |-> 0]

\* cell.add_paragraph(t) in place of cell.text = t: the cell keeps the empty
\* paragraph it was made with.
CellWithAddedText(t) == <<NewParagraph, [NewParagraph EXCEPT !.runs = <<NewRun(t)>>]>>

\* cell.text = t: the cell's content is removed and one paragraph with one
\* run added.
CellWithText(t) == <<[NewParagraph EXCEPT !.runs = <<NewRun(t)>>]>>

\* run.bold = True on every run of every paragraph of the cell.
BoldCell(cell) ==
    [k \in 1..Len(cell) |->
       [cell[k] EXCEPT !.runs = [j \in 1..Len(cell[k].runs) |->
                                   [cell[k].runs[j] EXCEPT !.bold = "True"]]]]

\* Whether the cell (r, c), 1-based, is filled from data.
Filled(ta, r, c) == r <= Min(ta.rows, Len(ta.data)) /\ c <= Min(ta.cols, Len(ta.data[r]))

FilledCell(ta, r, c) ==
    IF r = 1 /\ ta.header_bold THEN BoldCell(CellWithText(ta.data[r][c]))
    ELSE CellWithText(ta.data[r][c])

\* The filling loop over the new table.
FilledTable(t, ta) ==
    [t EXCEPT !.rows = [r \in 1..Len(t.rows) |->
                          [c \in 1..Len(t.rows[r]) |->
                             IF Filled(ta, r, c) THEN FilledCell(ta, r, c) ELSE t.rows[r][c]]]]

FillRaises(ta) ==
    \E r \in 1..Len(ta.data) : \E c \in 1..Len(ta.data[r]) :
        Filled(ta, r, c) /\ ~XmlCompatible(ta.data[r][c])

\* table.style = name raises KeyError when the document has no such style.
HasStyle(doc, name) == name \in doc.styles

CreateTableWithData(fs, path, ta) ==
    IF ~Exists(fs, path) THEN Return(TextResult("notfound"))
    ELSE IF ~HasStyle(fs[path], "Table Grid") \/ FillRaises(ta) THEN Return(ExceptText)
    ELSE SaveThenReturn(path,
             [fs[path] EXCEPT !.body =
                 Append(@, TableBlock(FilledTable([NewTable(ta.rows, ta.cols)
                                                     EXCEPT !.style = "Table Grid"], ta)))],
             TextResult("ok"))

---------------------------------------------------------------------------
\* Images.  A drawing is [cx, cy, blips]: its extent and the blips found
\* in it, each [blob, ctype, embedded].  A picture added by this program has
\* one blip, a group of pictures made in a word processor has one blip for
\* each picture, and a chart has none; embedded tells whether the blip has
\* an r:embed relationship to an image part (a linked picture does not).

EmuPerInch == 914400

\* Inches(n)
Inches(n) == n * EmuPerInch

\* The extents of the model for which int((emu / 914400) * 914400), computed
\* in floating point, is emu - 1.
LossyExtents == {914405}

\* Inches(emu / 914400)
EmuViaInches(emu) == IF emu \in LossyExtents THEN emu - 1 ELSE emu

\* round(emu / 914400, 2), in hundredths of an inch.
HundredthsOfInch(emu) == (emu * 100 + EmuPerInch \div 2) \div EmuPerInch

Where(location, block, row, col, para, run, k) ==
    [location |-> location, block |-> block, row |-> row, col |-> col, para |-> para,
     run |-> run, k |-> k, blip |-> 0]

\* The entries of the embedded blips of the drawings of one run, in order
\* ("for drawing in drawings: ... for blip in blips:"); at tells where the
\* run is, and paragraph_index and tinfo are what the entry reports.  Every
\* entry of one drawing has the extent of the drawing, and its
\* drawing_element is the drawing (at, up to the blip).
RunImages(r, at, paragraph_index, tinfo) ==
    Flatten([k \in 1..Len(r.drawings) |->
        Flatten([b \in 1..Len(r.drawings[k].blips) |->
            IF r.drawings[k].blips[b].embedded
            THEN <<[paragraph_index |-> paragraph_index, location |-> at.location,
                    table_info |-> tinfo, image_blob |-> r.drawings[k].blips[b].blob,
                    content_type |-> r.drawings[k].blips[b].ctype,
                    width_emu |-> r.drawings[k].cx, height_emu |-> r.drawings[k].cy,
                    at |-> [at EXCEPT !.k = k, !.blip = b]]>>
            ELSE <<>>])])

NoTableInfo == [table_index |-> 0 - 1, row |-> 0 - 1, col |-> 0 - 1]

\* The first loop: the runs of the body paragraphs.
BodyImages(doc) ==
    LET at == ParaPositions(doc)
    IN  Flatten([i \in 1..Len(at) |->
            Flatten([j \in 1..Len(doc.body[at[i]].para.runs) |->
                RunImages(doc.body[at[i]].para.runs[j],
                          Where("paragraph", at[i], 0, 0, 0, j, 0), i - 1, NoTableInfo)])])

CellImages(cell, block, ti, r, c) ==
    Flatten([q \in 1..Len(cell) |->
        Flatten([j \in 1..Len(cell[q].runs) |->
            RunImages(cell[q].runs[j], Where("table", block, r, c, q, j, 0),
                      0 - 1, [table_index |-> ti - 1, row |-> r - 1, col |-> c - 1])])])

\* The second loop: tables, rows, cells, paragraphs, runs.
TableImages(doc) ==
    LET at == TablePositions(doc)
    IN  Flatten([ti \in 1..Len(at) |->
            Flatten([r \in 1..Len(doc.body[at[ti]].tbl.rows) |->
                Flatten([c \in 1..Len(doc.body[at[ti]].tbl.rows[r]) |->
                    CellImages(doc.body[at[ti]].tbl.rows[r][c], at[ti], ti, r, c)])])])

\* The two loops in the other order.
ExtractImagesTablesFirst(doc, include_tables) ==
    IF include_tables THEN TableImages(doc) \o BodyImages(doc) ELSE BodyImages(doc)

\* _extract_images_from_document: the entry at position n has index n - 1.
ExtractImages(doc, include_tables) ==
    IF include_tables THEN BodyImages(doc) \o TableImages(doc) ELSE BodyImages(doc)

ImageInfo(img, index) ==
    [index |-> index, location |-> img.location, paragraph_index |-> img.paragraph_index,
     table_info |-> img.table_info, content_type |-> img.content_type,
     width_inches |-> HundredthsOfInch(img.width_emu),
     height_inches |-> HundredthsOfInch(img.height_emu), blob |-> img.image_blob]

GetImagesInfo(fs, path, include_tables) ==
    IF ~Exists(fs, path) THEN JsonError("notfound")
    ELSE LET images == ExtractImages(fs[path], include_tables)
         IN  JsonData([total_images |-> Len(images),
                       images |-> [k \in 1..Len(images) |-> ImageInfo(images[k], k - 1)]])

\* The format read_images infers from the content type.
ImageFormat(ctype) ==
    IF ctype = "image/jpeg" THEN "jpeg" ELSE IF ctype = "image/gif" THEN "gif" ELSE "png"

\* read_images with the index tested before the number of images.
ReadImagesChecksIndexFirst(fs, path, image_index, include_tables) ==
    IF ~Exists(fs, path) THEN TextResult("notfound")
    ELSE LET images == ExtractImages(fs[path], include_tables)
             chosen == {k \in 1..Len(images) : ~image_index.some \/ k - 1 = image_index.val}
         IN  IF image_index.some /\ chosen = {} THEN TextResult("invalid")
             ELSE IF Len(images) = 0 THEN Result("ok", "text", FALSE, FALSE, "No images found")
             ELSE Result("ok", "images", FALSE, FALSE,
                         [k \in chosen |-> [data |-> images[k].image_blob,
                                            format |-> ImageFormat(images[k].content_type)]])

ReadImages(fs, path, image_index, include_tables) ==
    IF ~Exists(fs, path) THEN TextResult("notfound")
    ELSE LET images == ExtractImages(fs[path], include_tables)
             chosen == {k \in 1..Len(images) : ~image_index.some \/ k - 1 = image_index.val}
         IN  IF Len(images) = 0 THEN Result("ok", "text", FALSE, FALSE, "No images found")
             ELSE IF image_index.some /\ chosen = {} THEN TextResult("invalid")
             ELSE Result("ok", "images", FALSE, FALSE,
                         [k \in chosen |-> [data |-> images[k].image_blob,
                                            format |-> ImageFormat(images[k].content_type)]])

\* Image.scaled_dimensions: a missing dimension keeps the aspect ratio
\* (rounded); w and h are optional EMU values.
RECURSIVE GCD(_, _)
GCD(m, n) == IF n = 0 THEN m ELSE GCD(n, m % n)

\* round(a * (b / c)), with b / c reduced first so that the product stays small.
Scaled(a, b, c) ==
    LET g == GCD(b, c)
    IN  (2 * a * (b \div g) + (c \div g)) \div (2 * (c \div g))

PictureSize(img, w, h) ==
    IF ~w.some /\ ~h.some THEN [cx |-> img.cx, cy |-> img.cy]
    ELSE IF ~w.some THEN [cx |-> Scaled(img.cx, h.val, img.cy), cy |-> h.val]
    ELSE IF ~h.some THEN [cx |-> w.val, cy |-> Scaled(img.cy, w.val, img.cx)]
    ELSE [cx |-> w.val, cy |-> h.val]

\* "if width_inches:": None and 0 both count as not given.
Given(x) == IF x.some /\ x.val # 0 THEN Some(Inches(x.val)) ELSE None

\* run.add_picture(path, width, height): the drawing the run receives.
Picture(image_path, w, h) ==
    [cx |-> PictureSize(ImageFile(image_path), w, h).cx,
     cy |-> PictureSize(ImageFile(image_path), w, h).cy,
     blips |-> <<[blob |-> ImageFile(image_path).blob,
                  ctype |-> ImageFile(image_path).ctype, embedded |-> TRUE]>>]

\* add_picture raises on a file that is no picture (UnrecognizedImageError).
PictureRaises(image_path) == ~ImageFile(image_path).valid

\* align_map.get(alignment.upper(), WD_ALIGN_PARAGRAPH.CENTER)
PictureAlignment(alignment) ==
    IF Upper(alignment) \in {"LEFT", "CENTER", "RIGHT"} THEN Upper(alignment) ELSE "CENTER"

\* The new paragraph of add_image and insert_image_after_paragraph: one run
\* with the picture.  ia is the record of the image arguments.
PictureParagraph(ia) ==
    [NewParagraph EXCEPT
        !.align = PictureAlignment(ia.alignment),
        !.runs = <<[NewRun(<<>>) EXCEPT !.drawings =
                      <<Picture(ia.image_path, Given(ia.width_inches), Given(ia.height_inches))>>]>>]

\* add_image with doc.save moved before run.add_picture.
AddImageSavesFirst(fs, path, ia) ==
    IF ~Exists(fs, path) THEN Return(JsonError("notfound"))
    ELSE IF ~ImageExists(ia.image_path) THEN Return(JsonError("notfound"))
    ELSE IF PictureRaises(ia.image_path)
         THEN SaveThenReturn(path,
                  [fs[path] EXCEPT !.body = Append(@, ParaBlock(
                      [NewParagraph EXCEPT !.align = PictureAlignment(ia.alignment),
                                           !.runs = <<NewRun(<<>>)>>]))],
                  ExceptJson)
    ELSE SaveThenReturn(path,
             [fs[path] EXCEPT !.body = Append(@, ParaBlock(PictureParagraph(ia)))],
             JsonSuccess)

AddImage(fs, path, ia) ==
    IF ~Exists(fs, path) THEN Return(JsonError("notfound"))
    ELSE IF ~ImageExists(ia.image_path) THEN Return(JsonError("notfound"))
    ELSE IF PictureRaises(ia.image_path) THEN Return(ExceptJson)
    ELSE SaveThenReturn(path,
             [fs[path] EXCEPT !.body = Append(@, ParaBlock(PictureParagraph(ia)))],
             JsonSuccess)

InsertImageAfterParagraph(fs, path, after_index, ia) ==
    IF ~Exists(fs, path) THEN Return(JsonError("notfound"))
    ELSE IF ~ImageExists(ia.image_path) THEN Return(JsonError("notfound"))
    ELSE IF InvalidParagraphIndex(fs[path], after_index) THEN Return(JsonError("invalid"))
    ELSE IF PictureRaises(ia.image_path) THEN Return(ExceptJson)
    ELSE SaveThenReturn(path,
             [fs[path] EXCEPT !.body = AddNext(@, BodyPosition(fs[path], after_index),
                                               ParaBlock(PictureParagraph(ia)))],
             JsonSuccess)

\* image_index < 0 or image_index >= len(images)
InvalidImageIndex(doc, i) == i < 0 \/ i >= Len(ExtractImages(doc, TRUE))

\* The runs of the paragraph a drawing is in, and the document with them
\* replaced.
RunsAt(doc, at) ==
    IF at.location = "paragraph" THEN doc.body[at.block].para.runs
    ELSE doc.body[at.block].tbl.rows[at.row][at.col][at.para].runs

WithRunsAt(doc, at, runs) ==
    IF at.location = "paragraph" THEN [doc EXCEPT !.body[at.block].para.runs = runs]
    ELSE [doc EXCEPT !.body[at.block].tbl.rows[at.row][at.col][at.para].runs = runs]

\* parent.remove(drawing_element)
WithoutDrawing(doc, at) ==
    WithRunsAt(doc, at, [RunsAt(doc, at) EXCEPT ![at.run].drawings = RemoveAt(@, at.k)])

\* delete_image resolving the index in a traversal of its own, tables
\* before body paragraphs.
DeleteImageTablesFirst(fs, path, image_index) ==
    IF ~Exists(fs, path) THEN Return(JsonError("notfound"))
    ELSE IF InvalidImageIndex(fs[path], image_index) THEN Return(JsonError("invalid"))
    ELSE SaveThenReturn(path,
             WithoutDrawing(fs[path],
                            ExtractImagesTablesFirst(fs[path], TRUE)[image_index + 1].at),
             JsonSuccess)

DeleteImage(fs, path, image_index) ==
    IF ~Exists(fs, path) THEN Return(JsonError("notfound"))
    ELSE IF InvalidImageIndex(fs[path], image_index) THEN Return(JsonError("invalid"))
    ELSE SaveThenReturn(path,
             WithoutDrawing(fs[path], ExtractImages(fs[path], TRUE)[image_index + 1].at),
             JsonSuccess)

\* replace_image builds Run(run_element, None); run.add_picture asks the
\* run's parent for the document part, and the parent is None
\* (AttributeError).
DetachedRunRaises == TRUE

\* The size replace_image asks for: the one given, else the old one when it
\* is above 0.
ReplacementSize(x, old_emu) ==
    IF x.some THEN Given(x)
    ELSE IF old_emu > 0 THEN Some(EmuViaInches(old_emu)) ELSE None

\* The old drawing removed and the new picture added at the end of the run.
WithReplacedDrawing(doc, img, ia) ==
    LET without == WithoutDrawing(doc, img.at)
    IN  WithRunsAt(without, img.at,
            [RunsAt(without, img.at) EXCEPT ![img.at.run].drawings =
                Append(@, Picture(ia.image_path,
                                  ReplacementSize(ia.width_inches, img.width_emu),
                                  ReplacementSize(ia.height_inches, img.height_emu)))])

ReplaceImage(fs, path, image_index, ia) ==
    IF ~Exists(fs, path) THEN Return(JsonError("notfound"))
    ELSE IF ~ImageExists(ia.image_path) THEN Return(JsonError("notfound"))
    ELSE IF InvalidImageIndex(fs[path], image_index) THEN Return(JsonError("invalid"))
    ELSE IF DetachedRunRaises \/ PictureRaises(ia.image_path) THEN Return(ExceptJson)
    ELSE SaveThenReturn(path,
             WithReplacedDrawing(fs[path], ExtractImages(fs[path], TRUE)[image_index + 1], ia),
             JsonSuccess)

---------------------------------------------------------------------------
\* The table tools.

\* table_index < 0 or table_index >= len(doc.tables)
InvalidTableIndex(doc, i) == i < 0 \/ i >= Len(Tables(doc))

\* The position in the body of doc.tables[i].
TablePosition(doc, i) == TablePositions(doc)[i + 1]

\* try: table.style = style / except: table.style = 'Table Grid'
StyleApplied(doc, style) == IF HasStyle(doc, style) THEN style ELSE "Table Grid"

StyleRaises(doc, style) == ~HasStyle(doc, style) /\ ~HasStyle(doc, "Table Grid")

\* insert_table_after_paragraph without the move behind the paragraph: the
\* table stays where doc.add_table put it, at the end of the body.
InsertTableAtEnd(fs, path, after_index, ta) ==
    IF ~Exists(fs, path) THEN Return(JsonError("notfound"))
    ELSE IF InvalidParagraphIndex(fs[path], after_index) THEN Return(JsonError("invalid"))
    ELSE IF StyleRaises(fs[path], ta.style) \/ FillRaises(ta) THEN Return(ExceptJson)
    ELSE SaveThenReturn(path,
             [fs[path] EXCEPT !.body =
                 Append(@, TableBlock(FilledTable([NewTable(ta.rows, ta.cols) EXCEPT
                                                     !.style = StyleApplied(fs[path], ta.style)],
                                                  ta)))],
             JsonSuccess)

InsertTableAfterParagraph(fs, path, after_index, ta) ==
    IF ~Exists(fs, path) THEN Return(JsonError("notfound"))
    ELSE IF InvalidParagraphIndex(fs[path], after_index) THEN Return(JsonError("invalid"))
    ELSE IF StyleRaises(fs[path], ta.style) \/ FillRaises(ta) THEN Return(ExceptJson)
    ELSE SaveThenReturn(path,
             [fs[path] EXCEPT !.body =
                 AddNext(@, BodyPosition(fs[path], after_index),
                         TableBlock(FilledTable([NewTable(ta.rows, ta.cols) EXCEPT
                                                   !.style = StyleApplied(fs[path], ta.style)],
                                                ta)))],
             JsonSuccess)

\* The formatting update_table_cell gives a run.  ca is the record of its
\* arguments: new_text, font_name (Unset or "" for none), font_size
\* (optional, quarter points), is_bold ("None", "True", "False").
FontGiven(ca) == ca.font_name # Unset /\ ca.font_name # ""

\* The run left as cell.text made it.
CellRunUnformatted(r, ca) == r

CellRunFormatted(r, ca) ==
    [r EXCEPT !.font = IF FontGiven(ca) THEN ca.font_name ELSE @,
              !.eastAsia = IF FontGiven(ca) THEN ca.font_name ELSE @,
              !.sz = IF ca.font_size.some THEN HalfPoints(ca.font_size.val) ELSE @,
              !.bold = IF ca.is_bold # "None" THEN ca.is_bold ELSE @]

UpdatedCell(ca) ==
    [k \in 1..1 |->
       [NewParagraph EXCEPT !.runs = <<CellRunFormatted(NewRun(ca.new_text), ca)>>]]

CellUpdateRaises(ca) ==
    ~XmlCompatible(ca.new_text) \/ (ca.font_size.some /\ ~SizeAccepted(ca.font_size.val))

UpdateTableCell(fs, path, table_index, row, col, ca) ==
    IF ~Exists(fs, path) THEN Return(JsonError("notfound"))
    ELSE IF InvalidTableIndex(fs[path], table_index) THEN Return(JsonError("invalid"))
    ELSE LET pos == TablePosition(fs[path], table_index)
             t == fs[path].body[pos].tbl
         IN  IF row < 0 \/ row >= Len(t.rows) THEN Return(JsonError("invalid"))
             ELSE IF col < 0 \/ col >= t.ncols THEN Return(JsonError("invalid"))
             ELSE IF CellUpdateRaises(ca) THEN Return(ExceptJson)
             ELSE SaveThenReturn(path,
                      [fs[path] EXCEPT !.body[pos].tbl.rows[row + 1][col + 1] = UpdatedCell(ca)],
                      JsonSuccess)

\* delete_table that removes nothing for an index out of range, and still
\* saves and reports success.
DeleteTableIgnoresBadIndex(fs, path, table_index) ==
    IF ~Exists(fs, path) THEN Return(JsonError("notfound"))
    ELSE IF InvalidTableIndex(fs[path], table_index)
         THEN SaveThenReturn(path, fs[path], JsonSuccess)
    ELSE SaveThenReturn(path,
             [fs[path] EXCEPT !.body = RemoveAt(@, TablePosition(fs[path], table_index))],
             JsonSuccess)

DeleteTable(fs, path, table_index) ==
    IF ~Exists(fs, path) THEN Return(JsonError("notfound"))
    ELSE IF InvalidTableIndex(fs[path], table_index) THEN Return(JsonError("invalid"))
    ELSE SaveThenReturn(path,
             [fs[path] EXCEPT !.body = RemoveAt(@, TablePosition(fs[path], table_index))],
             JsonSuccess)

\* The children of the table element are tblPr, tblGrid and the rows; gridPos
\* is the number of rows that stand before tblGrid (0 in a table as the
\* library or a word processor writes it).  tbl.insert(position + 1, tr)
\* counts every child, so the new row comes after position rows when they
\* all stand before tblGrid, and after position - 1 rows otherwise.
RowsBefore(t, position) == IF position <= t.gridPos THEN position ELSE position - 1

\* The new row filled from row_data: cell i gets str(row_data[i]).
FilledRow(ncols, row_data) ==
    [c \in 1..ncols |-> IF c <= Len(row_data) THEN CellWithText(row_data[c]) ELSE NewCell]

RowFillRaises(ncols, row_data) ==
    \E c \in 1..Min(ncols, Len(row_data)) : ~XmlCompatible(row_data[c])

WithRowAdded(t, row_data, position) ==
    IF position.some
    THEN [t EXCEPT !.rows = InsertAt(@, RowsBefore(t, position.val), FilledRow(t.ncols, row_data)),
                   !.gridPos = IF position.val <= @ THEN @ + 1 ELSE @]
    ELSE [t EXCEPT !.rows = Append(@, FilledRow(t.ncols, row_data))]

AddTableRow(fs, path, table_index, row_data, position) ==
    IF ~Exists(fs, path) THEN Return(JsonError("notfound"))
    ELSE IF InvalidTableIndex(fs[path], table_index) THEN Return(JsonError("invalid"))
    ELSE LET pos == TablePosition(fs[path], table_index)
             t == fs[path].body[pos].tbl
         IN  IF position.some /\ (position.val < 0 \/ position.val > Len(t.rows))
             THEN Return(JsonError("invalid"))
             ELSE IF RowFillRaises(t.ncols, row_data) THEN Return(ExceptJson)
             ELSE SaveThenReturn(path,
                      [fs[path] EXCEPT !.body[pos].tbl = WithRowAdded(t, row_data, position)],
                      JsonSuccess)

\* The last row removed, whatever row was asked for.
WithLastRowDeleted(t, row_index) == [t EXCEPT !.rows = SubSeq(@, 1, Len(@) - 1)]

\* table._tbl.remove(tr)
WithRowDeleted(t, row_index) ==
    [t EXCEPT !.rows = RemoveAt(@, row_index + 1),
              !.gridPos = IF row_index < @ THEN @ - 1 ELSE @]

DeleteTableRow(fs, path, table_index, row_index) ==
    IF ~Exists(fs, path) THEN Return(JsonError("notfound"))
    ELSE IF InvalidTableIndex(fs[path], table_index) THEN Return(JsonError("invalid"))
    ELSE LET pos == TablePosition(fs[path], table_index)
             t == fs[path].body[pos].tbl
         IN  IF row_index < 0 \/ row_index >= Len(t.rows) THEN Return(JsonError("invalid"))
             ELSE SaveThenReturn(path,
                      [fs[path] EXCEPT !.body[pos].tbl = WithRowDeleted(t, row_index)],
                      JsonSuccess)

---------------------------------------------------------------------------
\* The documents a behaviour starts from, and the arguments tried.

Logo ==
    [cx |-> 914405, cy |-> 457200,
     blips |-> <<[blob |-> "logo", ctype |-> "image/png", embedded |-> TRUE]>>]

Photo ==
    [cx |-> 952500, cy |-> 476250,
     blips |-> <<[blob |-> "photo", ctype |-> "image/jpeg", embedded |-> TRUE]>>]

\* A picture linked to a file outside the document.
Chart ==
    [cx |-> 952500, cy |-> 952500, blips |-> <<[blob |-> "", ctype |-> "", embedded |-> FALSE]>>]

\* Two pictures grouped into one drawing.
Collage ==
    [cx |-> 1905000, cy |-> 952500,
     blips |-> <<[blob |-> "photo", ctype |-> "image/jpeg", embedded |-> TRUE],
                 [blob |-> "logo", ctype |-> "image/png", embedded |-> TRUE]>>]

PlainRun(t) == NewRun(t)

\* A heading of two runs, the second with a picture beside its text.
Heading ==
    [NewParagraph EXCEPT
        !.style = "Heading 1", !.align = "CENTER",
        !.runs = <<[PlainRun(<<"a", "b">>) EXCEPT !.bold = "True", !.font = "Arial", !.sz = 28],
                   [PlainRun(<<"A">>) EXCEPT !.drawings = <<Logo>>]>>]

\* A paragraph of one run with a linked picture and a group of two pictures.
Figures ==
    [NewParagraph EXCEPT !.runs = <<[PlainRun(<<"a">>) EXCEPT !.drawings = <<Chart, Collage>>]>>]

Blank == [NewParagraph EXCEPT !.runs = <<PlainRun(<<" ">>)>>]

\* A 2 x 2 table with a picture in one cell.
Grid ==
    [rows |-> <<
        <<CellWithText(<<"a">>),
          <<[NewParagraph EXCEPT !.runs = <<[PlainRun(<<>>) EXCEPT !.drawings = <<Photo>>]>>],
            [NewParagraph EXCEPT !.runs = <<PlainRun(<<"a">>), PlainRun(<<"b">>)>>]>> >>,
        <<NewCell, CellWithText(<<"a", "b", "a">>)>> >>,
     ncols |-> 2, style |-> "Table Grid", gridPos |-> 0]

\* A document written by a word processor.
Report ==
    [exists |-> TRUE, styles |-> TemplateStyles,
     body |-> <<ParaBlock(Heading), TableBlock(Grid), ParaBlock(NewParagraph), ParaBlock(Figures)>>]

\* A document whose styles do not include the table styles.
Letter == [exists |-> TRUE, styles |-> {}, body |-> <<ParaBlock(Blank)>>]

Disk(a, b) == [p \in Paths |-> IF p = "a.docx" THEN a ELSE IF p = "b.docx" THEN b ELSE NoFile]

InitFiles == {Disk(NoFile, NoFile), Disk(Report, NoFile), Disk(Report, Letter)}

ParaArgs ==
    {[text |-> <<"a">>, font_name |-> "SimSun", font_size |-> 48, is_bold |-> FALSE,
      alignment |-> "LEFT", indent_first_line |-> 0, line_spacing |-> 0],
     [text |-> <<"x", "CR", "y">>, font_name |-> "Arial", font_size |-> 42, is_bold |-> TRUE,
      alignment |-> "center", indent_first_line |-> 2, line_spacing |-> 80],
     [text |-> <<"b", "TAB", "LF">>, font_name |-> "Arial", font_size |-> 41, is_bold |-> TRUE,
      alignment |-> "JUSTIFY", indent_first_line |-> 0, line_spacing |-> 0],
     [text |-> <<"NUL">>, font_name |-> "SimSun", font_size |-> 48, is_bold |-> FALSE,
      alignment |-> "LEFT", indent_first_line |-> 0, line_spacing |-> 0]}

SearchArgs ==
    {[search_text |-> <<"a">>, replace_text |-> <<"b">>, match_case |-> TRUE],
     [search_text |-> <<"a", "b">>, replace_text |-> <<"x">>, match_case |-> TRUE],
     [search_text |-> <<"A">>, replace_text |-> <<"BS", "1">>, match_case |-> FALSE],
     [search_text |-> <<"A">>, replace_text |-> <<"x">>, match_case |-> FALSE],
     [search_text |-> <<"b">>, replace_text |-> <<"BS", "BS">>, match_case |-> FALSE]}

TableArgs ==
    {[rows |-> 2, cols |-> 2, data |-> << << <<"x">>, <<"y", "CR">> >>, << <<"a">> >> >>,
      header_bold |-> TRUE, style |-> "Table Grid"],
     [rows |-> 1, cols |-> 1, data |-> << << <<"x">>, <<"y">> >>, << <<"a">> >> >>,
      header_bold |-> FALSE, style |-> "Fancy"],
     [rows |-> 1, cols |-> 1, data |-> << << <<"NUL">> >> >>,
      header_bold |-> FALSE, style |-> "Light List"]}

ImageArgs ==
    {[image_path |-> "pic.png", width_inches |-> None, height_inches |-> None,
      alignment |-> "CENTER"],
     [image_path |-> "pic.png", width_inches |-> Some(2), height_inches |-> None,
      alignment |-> "LEFT"],
     [image_path |-> "notes.txt", width_inches |-> None, height_inches |-> None,
      alignment |-> "CENTER"],
     [image_path |-> "missing.png", width_inches |-> None, height_inches |-> None,
      alignment |-> "CENTER"]}

CellArgs ==
    {[new_text |-> <<"b">>, font_name |-> Unset, font_size |-> None, is_bold |-> "None"],
     [new_text |-> <<"x", "CR">>, font_name |-> "Arial", font_size |-> Some(42),
      is_bold |-> "True"],
     [new_text |-> <<"a">>, font_name |-> "", font_size |-> Some(41), is_bold |-> "False"],
     [new_text |-> <<"NUL">>, font_name |-> Unset, font_size |-> None, is_bold |-> "None"]}

RowArgs == {<< <<"a">> >>, << <<"x">>, <<"NUL">> >>}

\* Every index from one below the first to one above the last of n.
Indexes(n) == (0 - 1)..n

OptionalIndexes(n) == {None} \cup {Some(i) : i \in Indexes(n)}

\* The row and column indexes tried on table table_index: every index from
\* one below the first to one above the last, and 0 alone where there is no
\* such table.
RowIndexes(doc, table_index) ==
    IF InvalidTableIndex(doc, table_index) THEN {0}
    ELSE Indexes(Len(Tables(doc)[table_index + 1].rows))

ColIndexes(doc, table_index) ==
    IF InvalidTableIndex(doc, table_index) THEN {0}
    ELSE Indexes(Tables(doc)[table_index + 1].ncols)

\* The positions tried for a new row: none, and every one from -1 to two
\* above the last row.
Positions(doc, table_index) ==
    IF InvalidTableIndex(doc, table_index) THEN {None}
    ELSE OptionalIndexes(Len(Tables(doc)[table_index + 1].rows) + 1)

---------------------------------------------------------------------------
\* The state machine.  files is the file system; last is the latest call
\* with the file system it found and the value it returned; nops counts the
\* calls made.

NoCall == [op |-> "none", path |-> ""]

Init ==
    /\ files \in InitFiles
    /\ last = [call |-> NoCall, pre |-> files, res |-> TextResult("none")]
    /\ nops = 0
    /\ calls = <<>>

\* One call of a tool, from its first line to its return: r is what the
\* tool leaves and returns.
Call(c, r) ==
    /\ nops < MaxOps
    /\ files' = r.files
    /\ last' = [call |-> c, pre |-> files, res |-> r.res]
    /\ nops' = nops + 1
    /\ UNCHANGED calls

\* A tool that only reads.
Read(c, res) == Call(c, [files |-> files, res |-> res])

\* What a mutation tool decides for the call c on the file system fs.
Decide(fs, c) ==
    CASE c.op = "add_formatted_paragraph" -> AddFormattedParagraph(fs, c.path, c.pa)
      [] c.op = "replace_paragraph" -> ReplaceParagraph(fs, c.path, c.index, c.pa)
      [] c.op = "insert_paragraph_after" -> InsertParagraphAfter(fs, c.path, c.index, c.pa)
      [] c.op = "search_and_replace" -> SearchAndReplace(fs, c.path, c.sa)
      [] c.op = "create_table_with_data" -> CreateTableWithData(fs, c.path, c.ta)
      [] c.op = "add_image" -> AddImage(fs, c.path, c.ia)
      [] c.op = "insert_image_after_paragraph" ->
            InsertImageAfterParagraph(fs, c.path, c.index, c.ia)
      [] c.op = "delete_image" -> DeleteImage(fs, c.path, c.index)
      [] c.op = "replace_image" -> ReplaceImage(fs, c.path, c.index, c.ia)
      [] c.op = "insert_table_after_paragraph" ->
            InsertTableAfterParagraph(fs, c.path, c.index, c.ta)
      [] c.op = "update_table_cell" -> UpdateTableCell(fs, c.path, c.index, c.row, c.col, c.ca)
      [] c.op = "delete_table" -> DeleteTable(fs, c.path, c.index)
      [] c.op = "add_table_row" -> AddTableRow(fs, c.path, c.index, c.row_data, c.position)
      [] c.op = "delete_table_row" -> DeleteTableRow(fs, c.path, c.index, c.row)

\* A mutation tool: it decides, then saves and returns.
Mutate(c) == Call(c, Finish(files, Decide(files, c)))

NumParas(path) == Len(Paragraphs(files[path]))

NumTables(path) == Len(Tables(files[path]))

NumImages(path) == Len(ExtractImages(files[path], TRUE))

DoCreate ==
    \E path \in Paths :
        Call([op |-> "create_new_document", path |-> path], CreateNewDocument(files, path))

DoInfo ==
    \E path \in DocPaths :
        Read([op |-> "get_document_info", path |-> path], GetDocumentInfo(files, path))

DoReadStructure ==
    \E path \in DocPaths, start_index \in 0..1, include_empty \in BOOLEAN :
      \E limit \in 1..2 :
        Read([op |-> "read_document_structure", path |-> path, start_index |-> start_index,
              limit |-> limit, include_empty |-> include_empty],
             ReadDocumentStructure(files, path, start_index, limit, include_empty))

DoReadTables ==
    \E path \in DocPaths : \E table_index \in OptionalIndexes(NumTables(path)) :
        Read([op |-> "read_tables", path |-> path, index |-> table_index],
             ReadTables(files, path, table_index))

DoImagesInfo ==
    \E path \in DocPaths, include_tables \in BOOLEAN :
        Read([op |-> "get_images_info", path |-> path, include_tables |-> include_tables],
             GetImagesInfo(files, path, include_tables))

DoReadImages ==
    \E path \in DocPaths, include_tables \in BOOLEAN :
        \E image_index \in OptionalIndexes(NumImages(path)) :
            Read([op |-> "read_images", path |-> path, index |-> image_index,
                  include_tables |-> include_tables],
                 ReadImages(files, path, image_index, include_tables))

DoAddParagraph ==
    \E path \in DocPaths, pa \in ParaArgs :
        Mutate([op |-> "add_formatted_paragraph", path |-> path, pa |-> pa])

DoReplaceParagraph ==
    \E path \in DocPaths, pa \in ParaArgs : \E i \in Indexes(NumParas(path)) :
        Mutate([op |-> "replace_paragraph", path |-> path, index |-> i, pa |-> pa])

DoInsertParagraphAfter ==
    \E path \in DocPaths, pa \in ParaArgs : \E i \in Indexes(NumParas(path)) :
        Mutate([op |-> "insert_paragraph_after", path |-> path, index |-> i, pa |-> pa])

DoSearchAndReplace ==
    \E path \in DocPaths, sa \in SearchArgs :
        Mutate([op |-> "search_and_replace", path |-> path, sa |-> sa])

DoCreateTable ==
    \E path \in DocPaths, ta \in TableArgs :
        Mutate([op |-> "create_table_with_data", path |-> path, ta |-> ta])

DoAddImage ==
    \E path \in DocPaths, ia \in ImageArgs :
        Mutate([op |-> "add_image", path |-> path, ia |-> ia])

DoInsertImageAfter ==
    \E path \in DocPaths, ia \in ImageArgs : \E i \in Indexes(NumParas(path)) :
        Mutate([op |-> "insert_image_after_paragraph", path |-> path, index |-> i, ia |-> ia])

DoDeleteImage ==
    \E path \in DocPaths : \E i \in Indexes(NumImages(path)) :
        Mutate([op |-> "delete_image", path |-> path, index |-> i])

DoReplaceImage ==
    \E path \in DocPaths, ia \in ImageArgs : \E i \in Indexes(NumImages(path)) :
        Mutate([op |-> "replace_image", path |-> path, index |-> i, ia |-> ia])

DoInsertTableAfter ==
    \E path \in DocPaths, ta \in TableArgs : \E i \in Indexes(NumParas(path)) :
        Mutate([op |-> "insert_table_after_paragraph", path |-> path, index |-> i, ta |-> ta])

DoUpdateTableCell ==
    \E path \in DocPaths, ca \in CellArgs : \E t \in Indexes(NumTables(path)) :
        \E row \in RowIndexes(files[path], t), col \in ColIndexes(files[path], t) :
            Mutate([op |-> "update_table_cell", path |-> path, index |-> t, row |-> row,
                    col |-> col, ca |-> ca])

DoDeleteTable ==
    \E path \in DocPaths : \E t \in Indexes(NumTables(path)) :
        Mutate([op |-> "delete_table", path |-> path, index |-> t])

DoAddTableRow ==
    \E path \in DocPaths, row_data \in RowArgs : \E t \in Indexes(NumTables(path)) :
        \E position \in Positions(files[path], t) :
            Mutate([op |-> "add_table_row", path |-> path, index |-> t,
                    row_data |-> row_data, position |-> position])

DoDeleteTableRow ==
    \E path \in DocPaths : \E t \in Indexes(NumTables(path)) :
        \E row \in RowIndexes(files[path], t) :
            Mutate([op |-> "delete_table_row", path |-> path, index |-> t, row |-> row])

Next ==
    \/ DoCreate
    \/ DoInfo
    \/ DoReadStructure
    \/ DoReadTables
    \/ DoImagesInfo
    \/ DoReadImages
    \/ DoAddParagraph
    \/ DoReplaceParagraph
    \/ DoInsertParagraphAfter
    \/ DoSearchAndReplace
    \/ DoCreateTable
    \/ DoAddImage
    \/ DoInsertImageAfter
    \/ DoDeleteImage
    \/ DoReplaceImage
    \/ DoInsertTableAfter
    \/ DoUpdateTableCell
    \/ DoDeleteTable
    \/ DoAddTableRow
    \/ DoDeleteTableRow

Spec == Init /\ [][Next]_vars

---------------------------------------------------------------------------
\* Two clients, each calling one mutation tool.  No tool takes a lock: a
\* call loads the file (Document(abs_path)), changes what it loaded, and
\* saves it later (doc.save(abs_path)); the other client may load or save
\* in between.

Clients == {"c1", "c2"}

Idle == [stage |-> "idle", call |-> NoCall, seen |-> <<>>, d |-> Return(TextResult("none")),
         saves |-> 0, order |-> 0]

RaceCalls ==
    {[op |-> "add_formatted_paragraph", path |-> p, pa |-> pa] : p \in DocPaths, pa \in ParaArgs}
    \cup {[op |-> "insert_paragraph_after", path |-> p, index |-> 0, pa |-> pa] :
              p \in DocPaths, pa \in ParaArgs}
    \cup {[op |-> "delete_table", path |-> p, index |-> 0] : p \in DocPaths}
    \cup {[op |-> "search_and_replace", path |-> p, sa |-> sa] : p \in DocPaths, sa \in SearchArgs}

InitRace ==
    /\ files \in InitFiles
    /\ last = [call |-> NoCall, pre |-> files, res |-> TextResult("none")]
    /\ nops = 0
    /\ calls = [k \in Clients |-> Idle]

\* A call under a lock on the file would change the file as it is when the
\* call saves.
SavedUnderLock(fs, rec) == Finish(fs, Decide(fs, rec.call))

\* The call saves the document it loaded and changed, whatever the file
\* holds by now.
Saved(fs, rec) == Finish(fs, rec.d)

\* The call up to its doc.save: the checks, the load and the changes in
\* memory.  A call that fails returns here.
Load(k) ==
    /\ calls[k].stage = "idle"
    /\ \E c \in RaceCalls :
          LET d == Decide(files, c)
          IN  /\ calls' = [calls EXCEPT ![k] =
                             [stage |-> IF d.save THEN "loaded" ELSE "returned", call |-> c,
                              seen |-> files, d |-> d, saves |-> nops, order |-> 0]]
              /\ last' = IF d.save THEN last ELSE [call |-> c, pre |-> files, res |-> d.res]
    /\ UNCHANGED <<files, nops>>

\* doc.save and the return.
Save(k) ==
    /\ calls[k].stage = "loaded"
    /\ files' = Saved(files, calls[k]).files
    /\ nops' = nops + 1
    /\ calls' = [calls EXCEPT ![k].stage = "returned", ![k].order = nops + 1]
    /\ last' = [call |-> calls[k].call, pre |-> calls[k].seen, res |-> calls[k].d.res]

NextRace == \E k \in Clients : Load(k) \/ Save(k)

SpecRace == InitRace /\ [][NextRace]_vars

---------------------------------------------------------------------------
\* Calls in a row, reads among them.  calls holds the call before the
\* latest one (its arguments, the file system it found and the value it
\* returned), so that two calls in a row can be compared.

MaxCalls == 2

\* The reads tried, and the mutations that may follow them.
ReadCalls ==
    {[op |-> "get_document_info", path |-> p] : p \in DocPaths}
    \cup {[op |-> "read_document_structure", path |-> p, start_index |-> 0, limit |-> 2,
           include_empty |-> e] : p \in DocPaths, e \in BOOLEAN}
    \cup {[op |-> "read_tables", path |-> p, index |-> i] : p \in DocPaths, i \in {None, Some(0)}}
    \cup {[op |-> "get_images_info", path |-> p, include_tables |-> t] :
              p \in DocPaths, t \in BOOLEAN}
    \cup {[op |-> "read_images", path |-> p, index |-> i, include_tables |-> t] :
              p \in DocPaths, i \in {None, Some(1)}, t \in BOOLEAN}

FollowingCalls ==
    {[op |-> "add_formatted_paragraph", path |-> p, pa |-> pa] :
        p \in DocPaths, pa \in {q \in ParaArgs : q.alignment = "center"}}
    \cup {[op |-> "delete_image", path |-> p, index |-> 0] : p \in DocPaths}
    \cup {[op |-> "delete_table", path |-> p, index |-> 0] : p \in DocPaths}
    \cup {[op |-> "search_and_replace", path |-> p, sa |-> sa] :
              p \in DocPaths, sa \in {q \in SearchArgs : q.match_case}}

\* What a read tool returns for the call c on the file system fs.
ReadResult(fs, c) ==
    CASE c.op = "get_document_info" -> GetDocumentInfo(fs, c.path)
      [] c.op = "read_document_structure" ->
            ReadDocumentStructure(fs, c.path, c.start_index, c.limit, c.include_empty)
      [] c.op = "read_tables" -> ReadTables(fs, c.path, c.index)
      [] c.op = "get_images_info" -> GetImagesInfo(fs, c.path, c.include_tables)
      [] c.op = "read_images" -> ReadImages(fs, c.path, c.index, c.include_tables)

\* A read tool that saves the document it loaded, as the mutation tools do;
\* the file it writes names the table styles of the library.
AfterReadSaved(fs, c) ==
    IF Exists(fs, c.path)
    THEN WriteFile(fs, c.path, [fs[c.path] EXCEPT !.styles = @ \cup TemplateStyles])
    ELSE fs

\* The file system a read tool leaves: it loads the document and returns,
\* with no doc.save and no state kept in the server.
AfterRead(fs, c) == fs

InitReads ==
    /\ files \in InitFiles
    /\ last = [call |-> NoCall, pre |-> files, res |-> TextResult("none")]
    /\ nops = 0
    /\ calls = <<>>

ReadStep ==
    /\ nops < MaxCalls
    /\ \E c \in ReadCalls :
          /\ files' = AfterRead(files, c)
          /\ last' = [call |-> c, pre |-> files, res |-> ReadResult(files, c)]
    /\ calls' = <<last>>
    /\ nops' = nops + 1

MutateStep ==
    /\ nops < MaxCalls
    /\ \E c \in FollowingCalls :
          /\ files' = Finish(files, Decide(files, c)).files
          /\ last' = [call |-> c, pre |-> files, res |-> Decide(files, c).res]
    /\ calls' = <<last>>
    /\ nops' = nops + 1

NextReads == ReadStep \/ MutateStep

SpecReads == InitReads /\ [][NextReads]_vars

---------------------------------------------------------------------------
\* The claims.  Each is stated over the latest call: the file system it
\* found (last.pre), its arguments (last.call), the value it returned
\* (last.res) and the file system it left (files).

Op == last.call.op

Path == last.call.path

\* The document the call found at its path, and the one it left there.
Before == last.pre[Path]

After == files[Path]

OutOfRange(i, n) == i < 0 \/ i >= n

MutationOps ==
    {"add_formatted_paragraph", "replace_paragraph", "insert_paragraph_after",
     "search_and_replace", "create_table_with_data", "add_image",
     "insert_image_after_paragraph", "delete_image", "replace_image",
     "insert_table_after_paragraph", "update_table_cell", "delete_table", "add_table_row",
     "delete_table_row"}

ReadOps ==
    {"get_document_info", "read_document_structure", "read_tables", "get_images_info",
     "read_images"}

ImageFileOps == {"add_image", "insert_image_after_paragraph", "replace_image"}

\* Whether the call names a paragraph, table, row, column or image that the
\* document it found does not have.
IndexOutOfRange ==
    CASE Op \in {"replace_paragraph", "insert_paragraph_after", "insert_image_after_paragraph",
                 "insert_table_after_paragraph"} ->
            OutOfRange(last.call.index, Len(Paragraphs(Before)))
      [] Op \in {"delete_table", "add_table_row"} ->
            OutOfRange(last.call.index, Len(Tables(Before)))
      [] Op = "update_table_cell" ->
            \/ OutOfRange(last.call.index, Len(Tables(Before)))
            \/ OutOfRange(last.call.row, Len(Tables(Before)[last.call.index + 1].rows))
            \/ OutOfRange(last.call.col, Tables(Before)[last.call.index + 1].ncols)
      [] Op = "delete_table_row" ->
            \/ OutOfRange(last.call.index, Len(Tables(Before)))
            \/ OutOfRange(last.call.row, Len(Tables(Before)[last.call.index + 1].rows))
      [] Op \in {"delete_image", "replace_image"} ->
            OutOfRange(last.call.index, Len(ExtractImages(Before, TRUE)))
      [] OTHER -> FALSE

\* The image file the call names exists (for the tools that take none, true).
ImageFileThere == Op \in ImageFileOps => last.call.ia.image_path # "missing.png"

C2_ErrorLeavesDiskUnchanged == (Op # "none" /\ last.res.kind # "ok") => files = last.pre

\* add_image on an existing document with a file that exists and is no
\* picture: the paragraph and run were added in memory before add_picture
\* raised.
C2_Witness ==
    /\ Op = "add_image"
    /\ Before.exists
    /\ last.call.ia.image_path = "notes.txt"
    /\ last.res.kind = "internal"

\* C3: every tool but create, called with a document path that does not
\* exist, returns a not-found error, creates no file there and changes no
\* other file; add_image, insert_image_after_paragraph and replace_image do
\* the same when the image file does not exist.
C3_NotFound ==
    (Op \in MutationOps \cup ReadOps /\ (~Before.exists \/ ~ImageFileThere))
        => (last.res.kind = "notfound" /\ files = last.pre /\ (~Before.exists => ~After.exists))

\* A mutation called on a path with no file while another file exists.
C3_Witness ==
    /\ Op = "insert_paragraph_after"
    /\ Path = "b.docx"
    /\ ~Before.exists
    /\ last.pre["a.docx"].exists
    /\ last.res.kind = "notfound"

C5_StructuredResults ==
    Op \in MutationOps
        => /\ last.res.form = "json"
           /\ last.res.kind = "ok" => last.res.success
           /\ last.res.kind # "ok" => last.res.error

\* Both calls have returned after saving to the same path, each having
\* loaded the file before either saved, and second saved last.
Overlapped(first, second) ==
    /\ calls[first].stage = "returned"
    /\ calls[second].stage = "returned"
    /\ calls[first].d.save
    /\ calls[second].d.save
    /\ calls[first].call.path = calls[second].call.path
    /\ calls[first].saves = 0
    /\ calls[second].saves = 0
    /\ calls[first].order < calls[second].order

\* What a call run alone leaves of the file system it found.
Alone(rec) == Finish(rec.seen, Decide(rec.seen, rec.call)).files

\* C6: when two mutations of the same path overlap (both load before either
\* saves), neither reports an error and the file is left as the document
\* the last saver loaded with only its own change: the change of the other
\* is lost.
C6_LastSaverWins ==
    \A first \in Clients, second \in Clients :
        Overlapped(first, second)
            => /\ calls[first].d.res.kind = "ok"
               /\ calls[second].d.res.kind = "ok"
               /\ files = Alone(calls[second])

\* Two calls that append different paragraphs to the same document have
\* overlapped.
C6_Witness ==
    /\ Overlapped("c1", "c2")
    /\ calls["c1"].call.op = "add_formatted_paragraph"
    /\ calls["c2"].call.op = "add_formatted_paragraph"
    /\ calls["c1"].call.pa # calls["c2"].call.pa
    /\ Alone(calls["c1"]) # calls["c1"].seen

\* C7: after create succeeds on a path, inspect on that path reports no
\* paragraphs, no tables and an empty summary.
C7_CreatedDocumentIsEmpty ==
    (Op = "create_new_document" /\ last.res.kind = "ok")
        => /\ GetDocumentInfo(files, Path).kind = "ok"
           /\ GetDocumentInfo(files, Path).data.total_paragraphs = 0
           /\ GetDocumentInfo(files, Path).data.total_tables = 0
           /\ GetDocumentInfo(files, Path).data.paragraphs_summary = <<>>

\* create has succeeded on a path that held a document with paragraphs.
C7_Witness ==
    /\ Op = "create_new_document"
    /\ last.res.kind = "ok"
    /\ Before.exists
    /\ Len(Paragraphs(Before)) > 0

\* C8: create called with a path whose parent directory does not exist or
\* cannot be written returns an error and leaves no file at that path.
C8_CreateInBadDirectoryFails ==
    (Op = "create_new_document" /\ Path \in BadDirPaths)
        => (last.res.kind # "ok" /\ ~After.exists /\ files = last.pre)

C8_Witness == Op = "create_new_document" /\ Path \in BadDirPaths /\ last.res.kind = "internal"

\* What read_structure shows of a document when asked for all of it.
Shown(doc) == ReadStructureData(doc, 0, Len(Paragraphs(doc)), TRUE)

\* A text with every carriage return replaced by a line feed.
AsLineFeeds(t) == [k \in 1..Len(t) |-> IF t[k] = "CR" THEN "LF" ELSE t[k]]

\* A size (quarter points) rounded down to a multiple of half a point.
DownToHalfPoint(q) == q - (q % 2)

ReplaceSucceeded == Op = "replace_paragraph" /\ last.res.kind = "ok"

\* The count of paragraphs and the text of every paragraph but i are as
\* before.
OthersUnchanged(i) ==
    /\ Shown(After).total_paragraphs = Shown(Before).total_paragraphs
    /\ \A j \in 1..Len(Paragraphs(Before)) :
           j # i + 1 => Shown(After).paragraphs[j].text = Shown(Before).paragraphs[j].text

\* C9 as claimed: after replace_paragraph(i, text, font, size, bold, ...)
\* succeeds, read_structure shows paragraph i with text equal to text,
\* exactly one run, and that run's bold, font name, East-Asian font and size
\* equal to the arguments; the count and the other texts are unchanged.
C9_Original ==
    ReplaceSucceeded =>
        LET i == last.call.index
            pa == last.call.pa
            shown == Shown(After).paragraphs[i + 1]
        IN  /\ shown.index = i
            /\ shown.text = pa.text
            /\ Len(shown.runs) = 1
            /\ shown.runs[1].bold = BoolName(pa.is_bold)
            /\ shown.runs[1].font_name = pa.font_name
            /\ shown.runs[1].east_asia_font = pa.font_name
            /\ shown.runs[1].font_size = pa.font_size
            /\ OthersUnchanged(i)

\* C9 as amended: the text shown is the text given with every carriage
\* return read back as a line feed, and the size shown is the size given
\* rounded down to a multiple of half a point (for a size of half a point
\* or more); the rest as claimed.
C9_ReplaceThenRead ==
    (ReplaceSucceeded /\ last.call.pa.font_size >= 2) =>
        LET i == last.call.index
            pa == last.call.pa
            shown == Shown(After).paragraphs[i + 1]
        IN  /\ shown.index = i
            /\ shown.text = AsLineFeeds(pa.text)
            /\ Len(shown.runs) = 1
            /\ shown.runs[1].text = AsLineFeeds(pa.text)
            /\ shown.runs[1].bold = BoolName(pa.is_bold)
            /\ shown.runs[1].font_name = pa.font_name
            /\ shown.runs[1].east_asia_font = pa.font_name
            /\ shown.runs[1].font_size = DownToHalfPoint(pa.font_size)
            /\ OthersUnchanged(i)

\* A paragraph of two runs has been replaced, in a document of several.
C9_Witness ==
    /\ ReplaceSucceeded
    /\ Len(Paragraphs(Before)) > 1
    /\ Len(Paragraphs(Before)[last.call.index + 1].runs) = 2
    /\ last.call.pa.font_size >= 2

InsertSucceeded == Op = "insert_paragraph_after" /\ last.res.kind = "ok"

\* The count grows by one, the paragraphs up to i are as before and those
\* after i have moved up by one, in order.
InsertedAfter(i) ==
    /\ Len(Paragraphs(After)) = Len(Paragraphs(Before)) + 1
    /\ \A j \in 1..Len(Paragraphs(Before)) :
           IF j <= i + 1 THEN Paragraphs(After)[j] = Paragraphs(Before)[j]
           ELSE Paragraphs(After)[j + 1] = Paragraphs(Before)[j]

\* C10 as claimed: insert_paragraph_after(i, text) grows the count by one,
\* the new paragraph with that text has index i+1, the later paragraphs
\* move up by one in order and those up to i are unchanged.
C10_Original ==
    (Op = "insert_paragraph_after" /\ Before.exists
        /\ ~OutOfRange(last.call.index, Len(Paragraphs(Before)))) =>
        /\ InsertedAfter(last.call.index)
        /\ Shown(After).paragraphs[last.call.index + 2].index = last.call.index + 1
        /\ Shown(After).paragraphs[last.call.index + 2].text = last.call.pa.text

\* C10 as amended: when the call succeeds (it fails, and inserts nothing,
\* on a text the library refuses), the new paragraph holds that text with
\* every carriage return read back as a line feed; the rest as claimed.
C10_InsertAfter ==
    InsertSucceeded =>
        /\ InsertedAfter(last.call.index)
        /\ Shown(After).paragraphs[last.call.index + 2].index = last.call.index + 1
        /\ Shown(After).paragraphs[last.call.index + 2].text = AsLineFeeds(last.call.pa.text)

\* A paragraph has been inserted after one that a table and other
\* paragraphs follow.
C10_Witness ==
    /\ InsertSucceeded
    /\ last.call.index = 0
    /\ Len(Paragraphs(Before)) > 2
    /\ Len(Tables(Before)) > 0

RECURSIVE Occurrences(_, _, _)
\* The number of occurrences of s in t, counted left to right, none
\* overlapping (s is not empty).
Occurrences(t, s, match_case) ==
    IF Len(t) < Len(s) THEN 0
    ELSE IF StartsWith(t, s, match_case)
         THEN 1 + Occurrences(SubSeq(t, Len(s) + 1, Len(t)), s, match_case)
    ELSE Occurrences(Tail(t), s, match_case)

RECURSIVE SumOver(_, _, _)
\* The occurrences of the search text in the runs k..Len(runs).
SumOver(runs, sa, k) ==
    IF k > Len(runs) THEN 0
    ELSE Occurrences(runs[k].text, sa.search_text, sa.match_case) + SumOver(runs, sa, k + 1)

\* The occurrences in all the runs of the body and of the table cells.
TotalOccurrences(doc, sa) == SumOver(VisitedRuns(doc), sa, 1)

SearchSucceeded == Op = "search_and_replace" /\ last.res.kind = "ok"

\* C11: the count search_and_replace reports equals the number of
\* occurrences of the search text it replaced across all the runs of the
\* body and of the table cells (a run holding it twice counts 2), and the
\* result gives that number to the caller as a field.
C11_ReportsOccurrences ==
    SearchSucceeded =>
        /\ last.res.data.message_count = TotalOccurrences(Before, last.call.sa)
        /\ "replacements_made" \in DOMAIN last.res.data

\* The paragraphs of a table's cells, row by row.
CellParagraphs(t) ==
    Flatten([r \in 1..Len(t.rows) |-> Flatten([c \in 1..Len(t.rows[r]) |-> t.rows[r][c]])])

\* Every paragraph of a document: those of the body, then those of the
\* cells of its tables.
EveryParagraph(doc) ==
    Paragraphs(doc) \o Flatten([k \in 1..Len(Tables(doc)) |-> CellParagraphs(Tables(doc)[k])])

Formatting(r) ==
    [bold |-> r.bold, italic |-> r.italic, font |-> r.font, eastAsia |-> r.eastAsia, sz |-> r.sz]

CreateTableSucceeded == Op = "create_table_with_data" /\ last.res.kind = "ok"

\* What read_tables returns of the table numbered k (0-based) of the
\* document left at the path.
TableRead(k) == ReadTables(files, Path, Some(k)).data

\* The text the claim gives cell (r, c), 1-based, of a table made from ta.
Wanted(ta, r, c) == IF r <= Len(ta.data) /\ c <= Len(ta.data[r]) THEN ta.data[r][c] ELSE <<>>

\* The table count has grown by one, the tables there were are as before
\* and one table, the last, is read at the index n: a grid of rows x cols.
NewTableIsLast(ta, n) ==
    /\ TableRead(n).total_tables = n + 1
    /\ \A k \in 1..n : Tables(After)[k] = Tables(Before)[k]
    /\ Len(TableRead(n).tables) = 1
    /\ TableRead(n).tables[1].table_index = n
    /\ TableRead(n).tables[1].rows = ta.rows
    /\ TableRead(n).tables[1].cols = ta.cols
    /\ Len(TableRead(n).tables[1].data) = ta.rows
    /\ \A r \in 1..ta.rows : Len(TableRead(n).tables[1].data[r]) = ta.cols

\* C13 as claimed: after create_table(rows, cols, data) succeeds, read_tables
\* on the new table returns rows x cols cells, cell (r, c) holding
\* data[r][c] where data has it and blank otherwise, data beyond the grid
\* ignored; the table count grows by one and the new table is the last.
C13_Original ==
    CreateTableSucceeded =>
        LET ta == last.call.ta
            n == Len(Tables(Before))
        IN  /\ NewTableIsLast(ta, n)
            /\ \A r \in 1..ta.rows, c \in 1..ta.cols :
                   TableRead(n).tables[1].data[r][c] = Wanted(ta, r, c)

\* C13 as amended: cell (r, c) holds data[r][c] with every carriage return
\* read back as a line feed; the rest as claimed.
C13_CreateThenRead ==
    CreateTableSucceeded =>
        LET ta == last.call.ta
            n == Len(Tables(Before))
        IN  /\ NewTableIsLast(ta, n)
            /\ \A r \in 1..ta.rows, c \in 1..ta.cols :
                   TableRead(n).tables[1].data[r][c] = AsLineFeeds(Wanted(ta, r, c))

\* A table with a cell data does not reach, and one made from data that
\* reaches beyond it, each added to a document that had a table.
C13_Witness ==
    /\ CreateTableSucceeded
    /\ Len(Tables(Before)) > 0
    /\ \/ last.call.ta.rows > Len(last.call.ta.data[2])
       \/ last.call.ta.rows < Len(last.call.ta.data)

\* The table the call names, as the call found it and as it left it.
TableBefore == Tables(Before)[last.call.index + 1]

TableAfter == Tables(After)[last.call.index + 1]

\* The document has the tables it had, every one but the one named as before.
OtherTablesUnchanged ==
    /\ Len(Tables(After)) = Len(Tables(Before))
    /\ \A k \in 1..Len(Tables(Before)) :
           k # last.call.index + 1 => Tables(After)[k] = Tables(Before)[k]

\* C14: a successful add_table_row gives the table one row more and leaves
\* the rows it had, contents and order, as they were; a successful
\* delete_table_row(i) gives it one row less, the rows other than the former
\* row i staying in order; no other table changes.
C14_RowAddedOrDeleted ==
    /\ (Op = "add_table_row" /\ last.res.kind = "ok") =>
           /\ Len(TableAfter.rows) = Len(TableBefore.rows) + 1
           /\ \E k \in 1..Len(TableAfter.rows) : RemoveAt(TableAfter.rows, k) = TableBefore.rows
           /\ OtherTablesUnchanged
    /\ (Op = "delete_table_row" /\ last.res.kind = "ok") =>
           /\ Len(TableAfter.rows) = Len(TableBefore.rows) - 1
           /\ TableAfter.rows = RemoveAt(TableBefore.rows, last.call.row + 1)
           /\ OtherTablesUnchanged

\* The first of two different rows has been deleted.
C14_Witness ==
    /\ Op = "delete_table_row"
    /\ last.res.kind = "ok"
    /\ last.call.row = 0
    /\ Len(TableBefore.rows) = 2
    /\ TableBefore.rows[1] # TableBefore.rows[2]

\* C15: add_table_row with a position p, 0 <= p <= the row count, makes
\* the new row the row number p (0-based) of the table, the rows formerly at
\* p and beyond each moving down by one; with no position the new row is
\* the last.
C15_RowLandsAtPosition ==
    (Op = "add_table_row" /\ last.res.kind = "ok") =>
        /\ Len(TableAfter.rows) = Len(TableBefore.rows) + 1
        /\ RemoveAt(TableAfter.rows,
                    IF last.call.position.some THEN last.call.position.val + 1
                    ELSE Len(TableAfter.rows)) = TableBefore.rows

\* update_table_cell was called on an existing document with a table, a
\* row and a column the document has.
CellCallValid ==
    /\ Op = "update_table_cell"
    /\ Before.exists
    /\ ~OutOfRange(last.call.index, Len(Tables(Before)))
    /\ ~OutOfRange(last.call.row, Len(TableBefore.rows))
    /\ ~OutOfRange(last.call.col, TableBefore.ncols)

\* The cell the call names, as it is afterwards.
CellAfter == TableAfter.rows[last.call.row + 1][last.call.col + 1]

\* The cell is one paragraph of one run, with the font, the size (as size
\* says of the one given) and the bold given, where given.
SingleRunAs(ca, size(_)) ==
    /\ Len(CellAfter) = 1
    /\ Len(CellAfter[1].runs) = 1
    /\ CellAfter[1].runs[1].drawings = <<>>
    /\ (ca.font_name \notin {Unset, ""}) =>
           /\ CellAfter[1].runs[1].font = ca.font_name
           /\ CellAfter[1].runs[1].eastAsia = ca.font_name
    /\ ca.font_size.some => FontSizeShown(CellAfter[1].runs[1].sz) = size(ca.font_size.val)
    /\ ca.is_bold # "None" => CellAfter[1].runs[1].bold = ca.is_bold

\* Every body paragraph, every other table and every other cell of the
\* table is as before.
RestUnchanged ==
    /\ Len(After.body) = Len(Before.body)
    /\ [After EXCEPT
           !.body[TablePositions(Before)[last.call.index + 1]].tbl.rows[last.call.row + 1]
                                                                       [last.call.col + 1] =
               TableBefore.rows[last.call.row + 1][last.call.col + 1]] = Before

AsGiven(q) == q

ReadStructureSucceeded == Op = "read_document_structure" /\ last.res.kind = "ok"

\* Whether read_structure may return the paragraph numbered j (0-based) of
\* the document under the arguments of the call.
Eligible(j) ==
    /\ j >= last.call.start_index
    /\ last.call.include_empty \/ Strip(ParaText(Paragraphs(Before)[j + 1])) # <<>>

\* The index of the last paragraph of the page, and one below the start
\* when the page is empty.
LastReturned ==
    IF last.res.data.paragraphs = <<>> THEN last.call.start_index - 1
    ELSE last.res.data.paragraphs[Len(last.res.data.paragraphs)].index

\* A paragraph after the last one returned that a following page would
\* return.
SomeRemain == \E j \in 0..(Len(Paragraphs(Before)) - 1) : j > LastReturned /\ Eligible(j)

\* C17: has_more is true exactly when the document holds a paragraph after
\* the last one returned that a following page would return (only the
\* non-empty ones count when include_empty is false).
C17_HasMoreIsExact == ReadStructureSucceeded => (last.res.data.has_more <=> SomeRemain)

\* The index of entry k of the page.
Shows(k) == last.res.data.paragraphs[k].index

\* C18: read_structure(start, limit, include_empty) returns at most limit
\* entries, each of a paragraph with index >= start that is eligible (one
\* without text only when include_empty is set), in strictly increasing
\* order of index, no eligible paragraph being skipped before the first,
\* between two, or after the last of a page that is not full;
\* returned_count is the number of entries and total_paragraphs the number
\* of paragraphs of the document.
C18_PageOfParagraphs ==
    ReadStructureSucceeded =>
        LET page == last.res.data.paragraphs
            total == Len(Paragraphs(Before))
        IN  /\ Len(page) <= last.call.limit
            /\ last.res.data.returned_count = Len(page)
            /\ last.res.data.total_paragraphs = total
            /\ \A k \in 1..Len(page) :
                  /\ Shows(k) \in 0..(total - 1)
                  /\ Eligible(Shows(k))
                  /\ page[k].text = ParaText(Paragraphs(Before)[Shows(k) + 1])
                  /\ k < Len(page) => Shows(k) < Shows(k + 1)
            /\ \A j \in 0..(total - 1) :
                  (Eligible(j) /\ \A k \in 1..Len(page) : Shows(k) # j)
                      => /\ Len(page) = last.call.limit
                         /\ j > LastReturned

\* A page of two paragraphs with text, one without text skipped between
\* them.
C18_Witness ==
    /\ ReadStructureSucceeded
    /\ ~last.call.include_empty
    /\ Len(last.res.data.paragraphs) = 2
    /\ Shows(2) > Shows(1) + 1

ListSucceeded == Op = "get_images_info" /\ last.res.kind = "ok"

\* The images of the document the call found, as the traversal of the call
\* finds them: entry k is the image the listing numbers k - 1.
Found == ExtractImages(Before, last.call.include_tables)

\* Where a drawing stands in the document: the block of the body, then, in
\* a table, the row, the cell and the paragraph, then the run, the drawing
\* in the run and the blip in the drawing.
Place(at) == <<at.block, at.row, at.col, at.para, at.run, at.k, at.blip>>

RECURSIVE Precedes(_, _)
\* Lexicographic order of two places.
Precedes(a, b) ==
    IF a = <<>> THEN FALSE
    ELSE Head(a) < Head(b) \/ (Head(a) = Head(b) /\ Precedes(Tail(a), Tail(b)))

\* The image at a stands earlier in the document than the image at b.
Earlier(a, b) == Precedes(Place(a), Place(b))

\* The listing numbers the images found 0, 1, 2, ...
Sequential ==
    LET n == Len(Found)
    IN  /\ last.res.data.total_images = n
        /\ Len(last.res.data.images) = n
        /\ \A k \in 1..n : last.res.data.images[k].index = k - 1

\* What list_images lists of the document at the path of the call.
Listed(fs, include_tables) == GetImagesInfo(fs, Path, include_tables).data.images

\* A listing without its numbers.
Unnumbered(list) == [k \in 1..Len(list) |-> [list[k] EXCEPT !.index = 0]]

\* Two images are blips of one drawing.
InDrawing(a, b) == [a EXCEPT !.blip = 0] = [b EXCEPT !.blip = 0]

\* The listing, without numbers, of the images that are not in the drawing
\* at.
OutsideDrawing(images, at) ==
    LET kept == SelectSeq(images, LAMBDA g : ~InDrawing(g.at, at))
    IN  [k \in 1..Len(kept) |-> ImageInfo(kept[k], 0)]

\* C19 as claimed: image indices are 0..n-1 and follow document order: of
\* two images, the one standing earlier in the document, in a body
\* paragraph or in a table cell, has the smaller index.
C19_Original ==
    ListSucceeded =>
        /\ Sequential
        /\ \A i \in 1..Len(Found), j \in 1..Len(Found) :
               Earlier(Found[i].at, Found[j].at)
                   => last.res.data.images[i].index < last.res.data.images[j].index

\* C19 as amended: image indices are 0..n-1; the images of the body
\* paragraphs come first, in document order, and the images of the table
\* cells follow, in document order among themselves, wherever the tables
\* stand among the paragraphs.  read_images(i) returns the image listed as
\* i, and delete_image(i) removes from the listing the drawing that holds
\* the image listed as i.
C19_BodyImagesThenTableImages ==
    /\ ListSucceeded =>
           LET found == Found
           IN  /\ Sequential
               /\ \A i \in 1..Len(found), j \in 1..Len(found) :
                      (\/ found[i].location = "paragraph" /\ found[j].location = "table"
                       \/ /\ found[i].location = found[j].location
                          /\ Earlier(found[i].at, found[j].at))
                          => last.res.data.images[i].index < last.res.data.images[j].index
    /\ (Op = "read_images" /\ last.res.form = "images" /\ last.call.index.some) =>
           /\ DOMAIN last.res.data = {last.call.index.val + 1}
           /\ last.res.data[last.call.index.val + 1].data =
                  Listed(last.pre, last.call.include_tables)[last.call.index.val + 1].blob
    /\ (Op = "delete_image" /\ last.res.kind = "ok") =>
           LET old == ExtractImages(Before, TRUE)
           IN  Unnumbered(Listed(files, TRUE)) =
                   OutsideDrawing(old, old[last.call.index + 1].at)

\* A listing with the tables of a document where a picture in a table
\* stands between two pictures of body paragraphs.
C19_Witness ==
    /\ ListSucceeded
    /\ last.call.include_tables
    /\ \E i \in 1..Len(Found), j \in 1..Len(Found), k \in 1..Len(Found) :
          /\ Found[j].location = "table"
          /\ Found[i].location = "paragraph"
          /\ Found[k].location = "paragraph"
          /\ Earlier(Found[i].at, Found[j].at)
          /\ Earlier(Found[j].at, Found[k].at)

\* replace_image was called on an existing document with the index of one
\* of its images and a picture file that exists.
ReplaceCallValid ==
    /\ Op = "replace_image"
    /\ Before.exists
    /\ ImageFile(last.call.ia.image_path).valid
    /\ ~OutOfRange(last.call.index, Len(ExtractImages(Before, TRUE)))

\* C20: for a valid image index i and an existing new image file,
\* replace_image succeeds, the number of images is as before, the new image
\* is again image i, and with no width and height given it has the width
\* and height of the image replaced.
C20_ReplaceKeepsPlaceAndSize ==
    ReplaceCallValid =>
        LET old == ExtractImages(Before, TRUE)
            new == ExtractImages(After, TRUE)
            i == last.call.index + 1
        IN  /\ last.res.kind = "ok"
            /\ Len(new) = Len(old)
            /\ new[i].image_blob = ImageFile(last.call.ia.image_path).blob
            /\ \A k \in 1..Len(old) : k # i => new[k] = old[k]
            /\ (~last.call.ia.width_inches.some /\ ~last.call.ia.height_inches.some) =>
                   /\ new[i].width_emu = old[i].width_emu
                   /\ new[i].height_emu = old[i].height_emu

\* delete_image was called on an existing document with the index of one of
\* its images.
DeleteCallValid ==
    /\ Op = "delete_image"
    /\ Before.exists
    /\ ~OutOfRange(last.call.index, Len(ExtractImages(Before, TRUE)))

\* The text of every paragraph of a document, body and table cells.
AllText(doc) == [k \in 1..Len(EveryParagraph(doc)) |-> ParaText(EveryParagraph(doc)[k])]

\* C21: for a valid image index i, delete_image(i) removes exactly the image
\* listed at index i: list_images then reports one image fewer, the images
\* left are the former ones other than i in their former order, and the
\* number of paragraphs, the number of tables and all text are as before.
C21_DeleteRemovesExactlyOne ==
    DeleteCallValid =>
        /\ last.res.kind = "ok"
        /\ GetImagesInfo(files, Path, TRUE).data.total_images =
               GetImagesInfo(last.pre, Path, TRUE).data.total_images - 1
        /\ Unnumbered(Listed(files, TRUE)) =
               RemoveAt(Unnumbered(Listed(last.pre, TRUE)), last.call.index + 1)
        /\ Len(Paragraphs(After)) = Len(Paragraphs(Before))
        /\ Len(Tables(After)) = Len(Tables(Before))
        /\ AllText(After) = AllText(Before)

\* The image the call names is not alone in its drawing.
DeletedWithOthers ==
    /\ DeleteCallValid
    /\ \E k \in 1..Len(ExtractImages(Before, TRUE)) :
           /\ k # last.call.index + 1
           /\ InDrawing(ExtractImages(Before, TRUE)[k].at,
                        ExtractImages(Before, TRUE)[last.call.index + 1].at)

\* read_tables or read_images was called on an existing document with an
\* index that is negative or not below the number of tables, or of the
\* images the call traverses.
ReadIndexOutOfRange ==
    /\ Op \in {"read_tables", "read_images"}
    /\ Before.exists
    /\ last.call.index.some
    /\ OutOfRange(last.call.index.val,
                  IF Op = "read_tables" THEN Len(Tables(Before))
                  ELSE Len(ExtractImages(Before, last.call.include_tables)))

\* C22: read_tables with a table index that is negative or >= the number of
\* tables, and read_images with an image index that is negative or >= the
\* number of images, return an invalid-index error, not a successful result.
C22_ReadsRejectBadIndex == ReadIndexOutOfRange => last.res.kind = "invalid"

\* The same for read_images alone, on a document that has an image.
ReadImagesRejectsBadIndex ==
    (ReadIndexOutOfRange /\ Op = "read_images"
        /\ Len(ExtractImages(Before, last.call.include_tables)) > 0)
        => last.res.kind = "invalid"

\* No run of the document, in the body or in a table cell, holds a drawing.
NoDrawings(doc) ==
    \A k \in 1..Len(EveryParagraph(doc)) :
        \A j \in 1..Len(EveryParagraph(doc)[k].runs) :
            EveryParagraph(doc)[k].runs[j].drawings = <<>>

\* C23: on a document that holds no drawing, list_images reports
\* total_images = 0 with an empty list, and read_images returns the "no
\* images found" message, whatever include_tables and image_index are.
C23_NoDrawingsNoImages ==
    (Op \in {"get_images_info", "read_images"} /\ Before.exists /\ NoDrawings(Before)) =>
        IF Op = "get_images_info"
        THEN /\ last.res.kind = "ok"
             /\ last.res.form = "json"
             /\ last.res.data.total_images = 0
             /\ last.res.data.images = <<>>
        ELSE /\ last.res.kind = "ok"
             /\ last.res.form = "text"
             /\ last.res.data = "No images found"

\* read_images asked for image 0 of a document without drawings, the tables
\* left out.
C23_Witness ==
    /\ Op = "read_images"
    /\ Before.exists
    /\ NoDrawings(Before)
    /\ last.call.index = Some(0)
    /\ ~last.call.include_tables
    /\ last.res.data = "No images found"

\* insert_table_after_paragraph was called on an existing document with the
\* index of one of its paragraphs.
InsertTableCallValid ==
    /\ Op = "insert_table_after_paragraph"
    /\ Before.exists
    /\ ~OutOfRange(last.call.index, Len(Paragraphs(Before)))

\* The number of tables among the first n blocks of a body.
TablesAmong(body, n) == Cardinality({k \in 1..n : body[k].kind = "t"})

\* The block following paragraph i is a new table of the rows and columns
\* asked for, no other block has changed or moved, and the new table is
\* numbered by the tables that precede paragraph i.
TablePlacedAfter(i) ==
    LET at == ParaPositions(After)[i + 1]
        n == TablesAmong(After.body, at)
    IN  /\ Len(Paragraphs(After)) = Len(Paragraphs(Before))
        /\ Len(Tables(After)) = Len(Tables(Before)) + 1
        /\ After.body[at] = ParaBlock(Paragraphs(Before)[i + 1])
        /\ After.body[at + 1].kind = "t"
        /\ Len(After.body[at + 1].tbl.rows) = last.call.ta.rows
        /\ After.body[at + 1].tbl.ncols = last.call.ta.cols
        /\ \A r \in 1..last.call.ta.rows :
               Len(After.body[at + 1].tbl.rows[r]) = last.call.ta.cols
        /\ RemoveAt(After.body, at + 1) = Before.body
        /\ n = TablesAmong(Before.body, ParaPositions(Before)[i + 1])
        /\ Tables(After)[n + 1] = After.body[at + 1].tbl
        /\ RemoveAt(Tables(After), n + 1) = Tables(Before)

\* C24 as claimed: for every valid paragraph index i,
\* insert_table_after_paragraph(i, rows, cols, data) places the new rows x
\* cols table as the block right after paragraph i; the table count grows
\* by one, every existing paragraph and table is unchanged and in its
\* place, and the new table's index is the number of tables preceding
\* paragraph i.
C24_Original ==
    InsertTableCallValid => (last.res.kind = "ok" /\ TablePlacedAfter(last.call.index))

\* C24 as amended: the same of every call that returns success (a call with
\* a valid index returns an error, and inserts nothing, when a text of the
\* data is refused by the library or the document has neither the style
\* asked for nor "Table Grid").
C24_InsertTableAfter ==
    /\ (Op = "insert_table_after_paragraph" /\ last.res.kind = "ok")
           => TablePlacedAfter(last.call.index)
    /\ (InsertTableCallValid /\ last.res.kind # "ok")
           => /\ files = last.pre
              /\ \/ FillRaises(last.call.ta)
                 \/ ~HasStyle(Before, "Table Grid")

\* A 2 x 2 table inserted after the first paragraph of a document whose
\* table stands behind that paragraph: the new table is table 0, not the
\* last.
C24_Witness ==
    /\ Op = "insert_table_after_paragraph"
    /\ last.res.kind = "ok"
    /\ last.call.index = 0
    /\ last.call.ta.rows = 2
    /\ Len(Tables(After)) = 2
    /\ Tables(After)[2] = Tables(Before)[1]

\* The call before the latest one.
Previous == calls[1]

\* The latest call is the call before it made again: the same tool with
\* the same arguments.
CalledAgain == calls # <<>> /\ Op = Previous.call.op /\ last.call = Previous.call

FoldedSearch == Op = "search_and_replace" /\ Before.exists /\ ~last.call.sa.match_case

\* Every occurrence of s in t, letter case ignored, is an occurrence in
\* exact case.
ExactCaseIn(t, s) ==
    \A k \in 0..(Len(t) - Len(s)) :
        StartsWith(SubSeq(t, k + 1, Len(t)), s, FALSE)
            => StartsWith(SubSeq(t, k + 1, Len(t)), s, TRUE)

\* The document the same call leaves with match_case true.
WithMatchCase ==
    Finish(last.pre, SearchAndReplace(last.pre, Path,
                                      [last.call.sa EXCEPT !.match_case = TRUE])).files[Path]

\* C26: with match_case false, search_and_replace replaces every occurrence
\* of the search text inside a run, letter case ignored, by the replacement
\* text taken literally, character for character, whatever the replacement
\* text is (backslashes and group references included); and where every
\* occurrence is in exact case, the document left equals the one left with
\* match_case true.
C26_FoldedReplacementIsLiteral ==
    FoldedSearch =>
        /\ Len(VisitedRuns(After)) = Len(VisitedRuns(Before))
        /\ \A k \in 1..Len(VisitedRuns(Before)) :
               VisitedRuns(After)[k].text =
                   StoredText(ReplaceAll(VisitedRuns(Before)[k].text, last.call.sa.search_text,
                                         last.call.sa.replace_text, FALSE))
        /\ (\A k \in 1..Len(VisitedRuns(Before)) :
                ExactCaseIn(VisitedRuns(Before)[k].text, last.call.sa.search_text))
               => After = WithMatchCase

\* The same for a replacement text without a backslash.
FoldedPlainReplacement ==
    (FoldedSearch /\ \A k \in 1..Len(last.call.sa.replace_text) :
                        last.call.sa.replace_text[k] # "BS")
        => C26_FoldedReplacementIsLiteral

\* The rows and columns of every table of a document.
Dimensions(doc) ==
    [k \in 1..Len(Tables(doc)) |->
        [rows |-> Len(Tables(doc)[k].rows), cols |-> Tables(doc)[k].ncols,
         cells |-> [r \in 1..Len(Tables(doc)[k].rows) |-> Len(Tables(doc)[k].rows[r])]]]

\* A run holding the search text holds an embedded image.
PictureInMatchingRun ==
    \E k \in 1..Len(VisitedRuns(Before)) :
        /\ RunMatches(VisitedRuns(Before)[k], last.call.sa)
        /\ \E d \in 1..Len(VisitedRuns(Before)[k].drawings) :
               \E b \in 1..Len(VisitedRuns(Before)[k].drawings[d].blips) :
                   VisitedRuns(Before)[k].drawings[d].blips[b].embedded

\* C27: after a successful search_and_replace the number of paragraphs, the
\* number of tables, the rows and columns of every table and the images
\* list_images reports, in number and order, are as before, also when a run
\* holding the search text holds an embedded image.
C27_SearchKeepsStructure ==
    SearchSucceeded =>
        /\ Len(Paragraphs(After)) = Len(Paragraphs(Before))
        /\ Len(Tables(After)) = Len(Tables(Before))
        /\ Dimensions(After) = Dimensions(Before)
        /\ Listed(files, TRUE) = Listed(last.pre, TRUE)

\* The images of the document the call found, as a traversal with the
\* tables and one without them find them.
WithTables == ExtractImages(Before, TRUE)

BodyOnly == ExtractImages(Before, FALSE)

\* C28: an image of a body paragraph has the same index in the listing
\* without the tables as in the listing with them, and the images of the
\* tables are numbered after all of them; so read_images returns for an
\* index of either listing the image delete_image and replace_image, which
\* traverse with the tables, find at that index, and delete_image removes
\* the image the listing without the tables shows at the index.
C28_IndicesAgree ==
    /\ ListSucceeded =>
           LET shown == last.res.data.images
               full == Listed(last.pre, TRUE)
               body == Listed(last.pre, FALSE)
           IN  /\ \A k \in 1..Len(shown) :
                      shown[k].location = "paragraph" =>
                          /\ k <= Len(body)
                          /\ shown[k] = full[k]
                          /\ shown[k] = body[k]
               /\ \A k \in 1..Len(shown) : shown[k].location = "table" => k > Len(body)
    /\ (Op = "read_images" /\ last.res.form = "images" /\ last.call.index.some) =>
           \A k \in DOMAIN last.res.data :
               /\ k = last.call.index.val + 1
               /\ last.res.data[k].data = WithTables[k].image_blob
    /\ (Op = "delete_image" /\ last.res.kind = "ok" /\ last.call.index < Len(BodyOnly)) =>
           LET body == BodyOnly
           IN  Unnumbered(Listed(files, FALSE)) =
                   OutsideDrawing(body, body[last.call.index + 1].at)
    /\ (Op = "replace_image" /\ Before.exists /\ ImageExists(last.call.ia.image_path)) =>
           (last.res.kind = "invalid" <=> OutOfRange(last.call.index, Len(WithTables)))

\* The listing without the tables of a document that has pictures in body
\* paragraphs on both sides of a table with a picture.
C28_Witness ==
    /\ ListSucceeded
    /\ ~last.call.include_tables
    /\ Len(WithTables) > Len(BodyOnly)
    /\ \E i \in 1..Len(BodyOnly), j \in 1..Len(BodyOnly), t \in 1..Len(WithTables) :
           /\ WithTables[t].location = "table"
           /\ Earlier(BodyOnly[i].at, WithTables[t].at)
           /\ Earlier(WithTables[t].at, BodyOnly[j].at)

====
